---------------------------- MODULE Spec2Model ----------------------------
(***************************************************************************)
(* Model of the JuPedSim pedestrian adapter of SUMO                        *)
(* (src/microsim/transportables/MSPModel_JuPedSim.cpp).                    *)
(*                                                                         *)
(* The adapter object is modelled with its fields (myPedestrianStates,     *)
(* myNumActivePedestrians, the engine handles), the external engine with   *)
(* the registries the adapter's calls change, and every handler logs the   *)
(* external calls it makes, in order, in jpsCalls.                         *)
(***************************************************************************)
EXTENDS Integers, Sequences, FiniteSets, TLC

\* ------------------------------------------------------------------ bounds
MaxAdds == 2           \* add calls that get past the lookup, over a run
MaxAddsAfterDelete == 3 \* the same, over a run in which states are deleted
MaxStages == 2         \* remaining stages of a pedestrian's plan seen by add
MaxComponents == 3     \* connected components of the merged geometry
MaxArea == 3           \* largest area of a component
RouteLen == 3          \* edges of a walking stage's route
DELTA_T == 5           \* the host's time step, in time units
MaxSamples == 2        \* draws of the random generator in one departure sampling
MaxPolygons == 2       \* additional polygons of the shape container
MaxHoles == 2          \* interior rings of the selected component
MaxHoleArea == 3       \* largest area of an interior ring, in units of 0.005
MaxLength == 3         \* largest length or width of a pedestrian type, in tenths of a metre

\* Pedestrians of the host simulation.
Persons == {1, 2}

\* Cartesian points of the engine, on an integer grid.
Positions == {<<0, 0>>, <<1, 1>>, <<2, 0>>}
\* Arrival points of stages (positionAtOffset of the arrival lane).
WaypointPositions == {<<0, 0>>, <<2, 0>>}
\* pedestrian.jupedsim.exit-tolerance of the configuration.
ExitTolerances == {1}

\* pedestrian.jupedsim.step-length of the configuration, in time units:
\* the engine's time step.
StepLengths == {2, 3}

NULL == 0

\* ------------------------------------------------------------------- state
VARIABLES
    NDEBUG,                   \* the build is compiled with -DNDEBUG: assert is a no-op
    adapter,                  \* "none", "alive", "failed" (ctor threw), "destroyed"
    myJPSDeltaT,
    myExitTolerance,
    myGEOSPedestrianNetwork,  \* areas of the connected components, in order
    maxAreaComponent,         \* index of the component handed to the engine
    handles,                  \* engine handles: "null", "live" or "freed"
    eventRegistered,          \* the step callback is registered with the scheduler
    myPedestrianStates,       \* sequence of PState records, in insertion order
    myNumActivePedestrians,
    heap,                     \* PState objects allocated so far
    jps,                      \* engine registries
    host,                     \* host stage of each person: current route step
    pc, stateIt,              \* position of execute's loop; pc is "aborted" once
                              \* the assertion of execute has failed
    jpsCalls,                 \* external calls made by the latest handler
    ret,                      \* the latest handler: its name, argument and result
    hist                      \* of each tracked state: waypoints it was given,
                              \* near-waypoint detections, accepted insertions,
                              \* whether the object has been deleted
                              \* (by a caller outside this file)

vars == <<NDEBUG, adapter, myJPSDeltaT, myExitTolerance, myGEOSPedestrianNetwork, maxAreaComponent,
          handles, eventRegistered, myPedestrianStates, myNumActivePedestrians,
          heap, jps, host, pc, stateIt, jpsCalls, ret, hist>>

geoVars == <<myGEOSPedestrianNetwork, maxAreaComponent>>
pedVars == <<myPedestrianStates, myNumActivePedestrians, heap, jps, host, pc, stateIt, hist>>

\* ----------------------------------------------------------------- helpers
RECURSIVE SeqsUpTo(_, _)
SeqsUpTo(S, n) ==
    IF n = 0 THEN {<<>>}
    ELSE LET shorter == SeqsUpTo(S, n - 1)
         IN  shorter \cup {Append(s, x) : s \in {t \in shorter : Len(t) = n - 1}, x \in S}

Range(s) == {s[i] : i \in 1..Len(s)}

RemoveAt(s, i) == SubSeq(s, 1, i - 1) \o SubSeq(s, i + 1, Len(s))

\* Position::distanceTo2D, squared.
distanceTo2DSq(p, q) == (p[1] - q[1]) * (p[1] - q[1]) + (p[2] - q[2]) * (p[2] - q[2])

\* The record of a handler call.
Call(op, arg, value) == [op |-> op, arg |-> arg, value |-> value]

\* hist restricted to the objects of the tracked states.
Tracked(states) == {states[i].obj : i \in 1..Len(states)}
Restrict(h, objs) == [o \in (DOMAIN h) \cap objs |-> h[o]]

NoHandles == [geometryBuilder |-> "null", geometry |-> "null", modelBuilder |-> "null",
              model |-> "null", simulation |-> "null"]


\* ------------------------------------------------ geometry and construction
\* Variant of buildPedestrianNetwork without the simplicity check.
buildPedestrianNetworkUnchecked(net) == [thrown |-> FALSE, geometry |-> net.components]

\* buildPedestrianNetwork: throws ProcessError unless the final geometry is simple.
buildPedestrianNetwork(net) ==
    IF ~net.simple
    THEN [thrown |-> TRUE, geometry |-> <<>>]
    ELSE [thrown |-> FALSE, geometry |-> net.components]

\* ------------------------------------------- collecting the walkable areas
\* The null pointer as a geometry.
NullGeometry == [kind |-> "null"]

\* createGeometryFromShape: the closed polygon of the shape if the geometry
\* library finds it simple, the null pointer otherwise.
createGeometryFromShape(shape) ==
    IF shape.simple THEN [kind |-> "polygon", shape |-> shape.id] ELSE NullGeometry

\* createGeometryFromAnchors: the buffered segment between the anchors for
\* lanes of equal width, the convex hull of the two buffered anchors otherwise.
createGeometryFromAnchors(anchor, lane, otherAnchor, otherLane) ==
    [kind |-> IF lane.width = otherLane.width THEN "line" ELSE "hull",
     anchor |-> anchor, otherAnchor |-> otherAnchor]

\* getAnchor: the end of the lane's shape if the edge is among the incoming
\* edges of the walking area, its start otherwise.
getAnchor(lane, isIncoming) == IF isIncoming THEN lane.back ELSE lane.front

\* A default-constructed Position.
DefaultPosition == <<0, 0>>

\* Functions of an edge; the outer loop skips walking areas.
EdgeFunctions == {"normal", "crossing", "walkingarea", "internal"}

isNormal(edge) == edge.function = "normal"
isCrossing(edge) == edge.function = "crossing"

\* An edge at the junction: its function, whether it is a predecessor of the
\* walking area in between (a successor otherwise), and its sidewalk lane.
JunctionEdges(front, back) ==
    [function : EdgeFunctions, incoming : BOOLEAN,
     lane : [front : {front}, back : {back}, width : {1, 2}]]

\* Pairs (edge, nextEdge) of distinct adjacent edges with a walking area in
\* between and a sidewalk on both: simple tells whether the walking area's
\* shape is simple, predecessorNormal and successorNormal whether a
\* predecessor or a successor of the walking area is a normal edge.
EdgePairs ==
    {pr \in [edge : JunctionEdges(<<1, 0>>, <<2, 0>>), nextEdge : JunctionEdges(<<2, 1>>, <<2, 2>>),
             simple : BOOLEAN, predecessorNormal : BOOLEAN, successorNormal : BOOLEAN] :
        /\ pr.edge.function # "walkingarea"
        /\ pr.edge.lane.width = 1
        /\ \A e \in {pr.edge, pr.nextEdge} :
              isNormal(e) => IF e.incoming THEN pr.predecessorNormal ELSE pr.successorNormal}

\* The anchors of the normal/crossing case: computed from the lanes if none of
\* the walking area's edges (its predecessors if edge is the crossing, its
\* successors otherwise) is normal, left default-constructed otherwise.
mixedAnchors(pr, noneNormal) ==
    IF noneNormal
    THEN [anchor |-> getAnchor(pr.edge.lane, pr.edge.incoming),
          nextAnchor |-> getAnchor(pr.nextEdge.lane, pr.nextEdge.incoming)]
    ELSE [anchor |-> DefaultPosition, nextAnchor |-> DefaultPosition]

\* The geometries pushed for anchors a.
pushConnector(pr, a) ==
    <<createGeometryFromAnchors(a.anchor, pr.edge.lane, a.nextAnchor, pr.nextEdge.lane)>>

\* The body of the inner loop of buildPedestrianNetwork for one pair: the
\* geometries it pushes onto walkableAreas.
connectPair(pr, walkingAreaGeom) ==
    IF isNormal(pr.edge) /\ isNormal(pr.nextEdge)
    THEN IF walkingAreaGeom # NullGeometry
         THEN <<walkingAreaGeom>>
         ELSE pushConnector(pr, [anchor |-> getAnchor(pr.edge.lane, pr.edge.incoming),
                                 nextAnchor |-> getAnchor(pr.nextEdge.lane, pr.nextEdge.incoming)])
    ELSE IF (isNormal(pr.edge) /\ isCrossing(pr.nextEdge))
            \/ (isCrossing(pr.edge) /\ isNormal(pr.nextEdge))
    THEN pushConnector(pr, mixedAnchors(pr, IF isCrossing(pr.edge) THEN ~pr.predecessorNormal
                                                               ELSE ~pr.successorNormal))
    ELSE IF isCrossing(pr.edge) /\ isCrossing(pr.nextEdge)
    THEN pushConnector(pr, [anchor |-> getAnchor(pr.edge.lane, pr.edge.incoming),
                            nextAnchor |-> getAnchor(pr.nextEdge.lane, pr.nextEdge.incoming)])
    ELSE <<>>

\* Additional polygons of the shape container.
ShapeTypes == {"jupedsim.walkable_area", "taz", "jupedsim.obstacle", "building"}
AdditionalPolygons == [type : ShapeTypes, simple : BOOLEAN, id : {1}]

\* The loop of buildPedestrianNetwork over the additional polygons, from the
\* i-th on: walkable areas and zones are pushed onto walkableAreas, obstacles
\* onto additionalObstacles.
RECURSIVE additionalAreas(_, _, _, _)
additionalAreas(polygons, i, walkableAreas, additionalObstacles) ==
    IF i > Len(polygons)
    THEN [walkableAreas |-> walkableAreas, additionalObstacles |-> additionalObstacles]
    ELSE IF polygons[i].type \in {"jupedsim.walkable_area", "taz"}
    THEN additionalAreas(polygons, i + 1,
                         Append(walkableAreas, createGeometryFromShape(polygons[i])),
                         additionalObstacles)
    ELSE IF polygons[i].type = "jupedsim.obstacle"
    THEN additionalAreas(polygons, i + 1, walkableAreas,
                         Append(additionalObstacles, createGeometryFromShape(polygons[i])))
    ELSE additionalAreas(polygons, i + 1, walkableAreas, additionalObstacles)


\* ------------------------------------------------- preparing the polygon
\* GEOS_MIN_AREA, as a fraction.
GEOS_MIN_AREA == <<1, 100>>

GreaterQ(p, q) == p[1] * q[2] > q[1] * p[2]

\* Areas the geometry library can report for a hole: multiples of 0.005.
HoleAreas == {<<n, 200>> : n \in 0..MaxHoleArea}

\* Closed rings: the last point repeats the first.
ExteriorRing == <<<<0, 0>>, <<3, 0>>, <<3, 3>>, <<0, 0>>>>
InteriorRings == {<<<<1, 1>>, <<2, 1>>, <<1, 2>>, <<1, 1>>>>,
                  <<<<2, 1>>, <<2, 2>>, <<1, 2>>, <<2, 1>>>>}

\* Polygons: the exterior ring, the interior rings in the library's order with
\* the area getHoleArea obtains for each, and whether GEOSGetNumInteriorRings
\* reports an exception (-1).
Polygons ==
    [exterior : {ExteriorRing},
     interior : SeqsUpTo([ring : InteriorRings, area : HoleAreas], MaxHoles),
     exception : BOOLEAN]

\* getCoordinates: every coordinate of the ring.
getCoordinates(ring) == ring

\* convertToJPSPoints: the coordinates of the ring without the last one.
convertToJPSPoints(ring) == SubSeq(ring, 1, Len(ring) - 1)

\* Variant of jpsHoles that also excludes a hole of exactly the minimum area.
RECURSIVE jpsHolesInclusive(_, _)
jpsHolesInclusive(interior, k) ==
    IF k > Len(interior) THEN <<>>
    ELSE IF ~GreaterQ(GEOS_MIN_AREA, interior[k].area)
    THEN <<<<"JPS_GeometryBuilder_ExcludeFromAccessibleArea",
             convertToJPSPoints(interior[k].ring)>>>> \o jpsHolesInclusive(interior, k + 1)
    ELSE jpsHolesInclusive(interior, k + 1)

\* The loop of preparePolygonForJPS over the interior rings, from the k-th on.
RECURSIVE jpsHoles(_, _)
jpsHoles(interior, k) ==
    IF k > Len(interior) THEN <<>>
    ELSE IF GreaterQ(interior[k].area, GEOS_MIN_AREA)
    THEN <<<<"JPS_GeometryBuilder_ExcludeFromAccessibleArea",
             convertToJPSPoints(interior[k].ring)>>>> \o jpsHoles(interior, k + 1)
    ELSE jpsHoles(interior, k + 1)

\* preparePolygonForJPS, lines 652-663: the engine calls for the interior
\* rings, none when GEOSGetNumInteriorRings reports an exception.
excludedAreas(polygon) ==
    IF polygon.exception THEN <<>> ELSE jpsHoles(polygon.interior, 1)

\* preparePolygonForJPS: the engine calls it makes.
preparePolygonForJPS(polygon) ==
    <<<<"JPS_GeometryBuilder_AddAccessibleArea", convertToJPSPoints(polygon.exterior)>>>>
        \o excludedAreas(polygon)

\* The loop of preparePolygonForDrawing over the interior rings, from the k-th on.
RECURSIVE drawingHoles(_, _)
drawingHoles(interior, k) ==
    IF k > Len(interior) THEN <<>>
    ELSE IF GreaterQ(interior[k].area, GEOS_MIN_AREA)
    THEN <<getCoordinates(interior[k].ring)>> \o drawingHoles(interior, k + 1)
    ELSE drawingHoles(interior, k + 1)

\* preparePolygonForDrawing: the polygons of the shape container afterwards.
preparePolygonForDrawing(polygon, polygonId) ==
    IF polygon.exception THEN <<>>
    ELSE <<[id |-> polygonId, type |-> "jupedsim.pedestrian_network",
            shape |-> getCoordinates(polygon.exterior),
            holes |-> drawingHoles(polygon.interior, 1)]>>


\* Variant of the selection loop that never raises maxArea.
RECURSIVE maxAreaLoopNoUpdate(_, _, _, _)
maxAreaLoopNoUpdate(areas, i, maxArea, best) ==
    IF i > Len(areas) THEN best
    ELSE IF areas[i] > maxArea
         THEN maxAreaLoopNoUpdate(areas, i + 1, maxArea, i)
         ELSE maxAreaLoopNoUpdate(areas, i + 1, maxArea, best)

\* The selection loop of initialize: first component whose area exceeds maxArea.
RECURSIVE maxAreaLoop(_, _, _, _)
maxAreaLoop(areas, i, maxArea, best) ==
    IF i > Len(areas) THEN best
    ELSE IF areas[i] > maxArea
         THEN maxAreaLoop(areas, i + 1, areas[i], i)
         ELSE maxAreaLoop(areas, i + 1, maxArea, best)

maxAreaConnectedComponentPolygon(areas) == maxAreaLoop(areas, 1, 0, NULL)

\* Interior rings the geometry library can report for a component of the
\* merged geometry: none, or one ring of the minimum area or above it.
ComponentInteriors ==
    SeqsUpTo([ring : {CHOOSE r \in InteriorRings : TRUE},
              area : {a \in HoleAreas : ~GreaterQ(GEOS_MIN_AREA, a)}], 1)

\* Merged geometries buildPedestrianNetwork can obtain from the geometry
\* library: the areas of the connected components of (walkable union minus
\* obstacle union), in the library's order, the interior rings of each
\* component, whether GEOSGetNumInteriorRings reports an exception for the
\* component it is asked about, and whether the result is simple.
Networks ==
    UNION {[components : {c}, interior : [1..Len(c) -> ComponentInteriors],
            exception : BOOLEAN, simple : BOOLEAN] :
              c \in (SeqsUpTo(1..MaxArea, MaxComponents) \ {<<>>})}

\* The network of the simulations: two components without interior rings.
TwoComponents ==
    [components |-> <<1, 2>>, interior |-> <<<<>>, <<>>>>, exception |-> FALSE,
     simple |-> TRUE]

\* The component of the network that initialize keeps, as the polygon
\* preparePolygonForJPS reads.
keptPolygon(net, best) ==
    [exterior |-> ExteriorRing, interior |-> net.interior[best],
     exception |-> net.exception]

\* The throw of initialize after an engine creation call returned null: the
\* engine's message is read, freed and carried by the ProcessError.
throwProcessError(what, message) ==
    <<<<"JPS_ErrorMessage_GetMessage", message>>,
      <<"JPS_ErrorMessage_Free", 0>>,
      <<"throw ProcessError " \o what, message>>>>

\* Variant of initialize that goes on after a null geometry.
initializeIgnoringNull(net, geomOk, modelOk, simOk, message) ==
    LET built == buildPedestrianNetwork(net)
        best == maxAreaConnectedComponentPolygon(built.geometry)
    IN  [thrown |-> built.thrown \/ ~modelOk \/ ~simOk,
         network |-> built.geometry, best |-> best,
         handles |-> [NoHandles EXCEPT !.geometryBuilder = "live"],
         calls |-> <<<<"initGEOS", 0>>,
                     <<"JPS_GeometryBuilder_Create", 0>>,
                     <<"JPS_GeometryBuilder_AddAccessibleArea", best>>>>
                   \o (IF built.thrown THEN <<>>
                       ELSE excludedAreas(keptPolygon(net, best)))
                   \o <<<<"JPS_GeometryBuilder_Build", IF geomOk THEN 1 ELSE 0>>,
                     <<"JPS_CollisionFreeSpeedModelBuilder_Create", 0>>,
                     <<"JPS_CollisionFreeSpeedModelBuilder_Build",
                       IF modelOk THEN 1 ELSE 0>>,
                     <<"JPS_Simulation_Create", IF simOk THEN 1 ELSE 0>>>>]

\* initialize: geomOk, modelOk, simOk say whether the engine's creation calls
\* return a handle, message is the engine's error message for the call that
\* does not.  The component kept is handed to the engine by
\* preparePolygonForJPS (line 718): its exterior ring, logged with the index
\* of the component, then its interior rings.  The result carries what the
\* constructor leaves behind.
initialize(net, geomOk, modelOk, simOk, message) ==
    LET built == buildPedestrianNetwork(net)
        n == Len(built.geometry)
        warn == IF n > 1 THEN <<<<"WRITE_WARNING components", n>>>> ELSE <<>>
        best == maxAreaConnectedComponentPolygon(built.geometry)
        c0 == <<<<"initGEOS", 0>>>>
        holes == IF built.thrown THEN <<>> ELSE excludedAreas(keptPolygon(net, best))
        c1 == c0 \o warn \o <<<<"JPS_GeometryBuilder_Create", 0>>,
                               <<"JPS_GeometryBuilder_AddAccessibleArea", best>>>>
                 \o holes
                 \o <<<<"JPS_GeometryBuilder_Build", IF geomOk THEN 1 ELSE 0>>>>
        c2 == c1 \o <<<<"JPS_CollisionFreeSpeedModelBuilder_Create", 0>>,
                      <<"JPS_CollisionFreeSpeedModelBuilder_Build", IF modelOk THEN 1 ELSE 0>>>>
        c3 == c2 \o <<<<"JPS_Simulation_Create", IF simOk THEN 1 ELSE 0>>>>
        h1 == [NoHandles EXCEPT !.geometryBuilder = "live"]
        h2 == [h1 EXCEPT !.geometry = "live", !.modelBuilder = "live"]
        h3 == [h2 EXCEPT !.model = "live"]
        h4 == [h3 EXCEPT !.simulation = "live"]
    IN  IF built.thrown
        THEN [thrown |-> TRUE, network |-> <<>>, best |-> NULL,
              handles |-> NoHandles, calls |-> c0]
        ELSE IF ~geomOk
        THEN [thrown |-> TRUE, network |-> built.geometry, best |-> best,
              handles |-> h1,
              calls |-> c1 \o throwProcessError("creating the geometry", message)]
        ELSE IF ~modelOk
        THEN [thrown |-> TRUE, network |-> built.geometry, best |-> best,
              handles |-> h2,
              calls |-> c2 \o throwProcessError("creating the pedestrian model", message)]
        ELSE IF ~simOk
        THEN [thrown |-> TRUE, network |-> built.geometry, best |-> best,
              handles |-> h3,
              calls |-> c3 \o throwProcessError("creating the simulation", message)]
        ELSE [thrown |-> FALSE, network |-> built.geometry, best |-> best,
              handles |-> h4, calls |-> c3]

\* Messages the engine can attach to a failed creation call, by number.
EngineMessages == {1, 2}

\* Orientation vectors the engine reports.
Orientations == {<<1, 0>>, <<0, 1>>}

\* The engine before any journey or agent is registered.  region is the set
\* of placements (point and orientation) the engine's geometry and model
\* allow for an agent in this run.
EmptyJps(region) == [stages |-> 0, transitions |-> 0, descriptions |-> 0, journeys |-> 0,
                     agents |-> <<>>, region |-> region]

\* The placement of an agent at a point: agents head along the x axis at the
\* origin and along the y axis elsewhere.
Placement(p) == [pos |-> p, orientation |-> IF p = <<0, 0>> THEN <<1, 0>> ELSE <<0, 1>>]

\* Geometry of the runs with several pedestrians: the point (2, 0).
PointRegions == {{Placement(<<2, 0>>)}}

\* Geometries of the runs with one pedestrian: two points of the grid.
WalkRegions == {{Placement(p) : p \in g} :
                   g \in {r \in SUBSET Positions : Cardinality(r) = 2}}

\* MSPModel_JuPedSim::MSPModel_JuPedSim: initialize(), then addEvent.
Construct ==
    /\ adapter = "none"
    /\ \E net \in Networks, tol \in ExitTolerances, step \in StepLengths, geomOk, modelOk, simOk \in BOOLEAN,
          message \in EngineMessages :
         LET r == initialize(net, geomOk, modelOk, simOk, message)
         IN  /\ adapter' = IF r.thrown THEN "failed" ELSE "alive"
             /\ myJPSDeltaT' = step
             /\ myExitTolerance' = tol
             /\ myGEOSPedestrianNetwork' = r.network
             /\ maxAreaComponent' = r.best
             /\ handles' = r.handles
             /\ eventRegistered' = ~r.thrown
             /\ jpsCalls' = IF r.thrown THEN r.calls
                            ELSE Append(r.calls, <<"addEvent", 0>>)
             /\ ret' = Call("ctor", IF net.simple THEN 1 ELSE 0, NULL)
    /\ UNCHANGED <<NDEBUG, pedVars>>

\* Variant of clearState that leaves the counter alone.
clearStateKeepingCount(states, num) == [states |-> <<>>, num |-> num, calls |-> <<>>]

\* clearState: the vector of pointers is cleared and the counter reset.
clearState(states, num) == [states |-> <<>>, num |-> 0, calls |-> <<>>]

\* Variant of the destructor that frees the geometry before the simulation
\* that uses it.
destructorGeometryFirst(states, num) ==
    LET cleared == clearState(states, num)
    IN  [states |-> cleared.states, num |-> cleared.num,
         calls |-> cleared.calls \o
                   <<<<"JPS_Geometry_Free", 0>>,
                     <<"JPS_GeometryBuilder_Free", 0>>,
                     <<"JPS_Simulation_Free", 0>>,
                     <<"JPS_OperationalModel_Free", 0>>,
                     <<"JPS_CollisionFreeSpeedModelBuilder_Free", 0>>,
                     <<"GEOSGeom_destroy", 0>>,
                     <<"finishGEOS", 0>>>>]

\* MSPModel_JuPedSim::~MSPModel_JuPedSim.
destructor(states, num) ==
    LET cleared == clearState(states, num)
    IN  [states |-> cleared.states, num |-> cleared.num,
         calls |-> cleared.calls \o
                   <<<<"JPS_Simulation_Free", 0>>,
                     <<"JPS_OperationalModel_Free", 0>>,
                     <<"JPS_CollisionFreeSpeedModelBuilder_Free", 0>>,
                     <<"JPS_Geometry_Free", 0>>,
                     <<"JPS_GeometryBuilder_Free", 0>>,
                     <<"GEOSGeom_destroy", 0>>,
                     <<"finishGEOS", 0>>>>]

Destroy ==
    /\ adapter = "alive"
    /\ pc = "idle"
    /\ LET r == destructor(myPedestrianStates, myNumActivePedestrians)
       IN  /\ myPedestrianStates' = r.states
           /\ myNumActivePedestrians' = r.num
           /\ jpsCalls' = r.calls
    /\ adapter' = "destroyed"
    /\ handles' = [h \in DOMAIN handles |-> "freed"]
    /\ ret' = Call("dtor", 0, NULL)
    /\ hist' = <<>>
    /\ UNCHANGED <<NDEBUG, myJPSDeltaT, myExitTolerance, geoVars, eventRegistered, heap, jps, host, pc, stateIt>>

ClearState ==
    /\ adapter = "alive"
    /\ pc = "idle"
    /\ LET r == clearState(myPedestrianStates, myNumActivePedestrians)
       IN  /\ myPedestrianStates' = r.states
           /\ myNumActivePedestrians' = r.num
           /\ jpsCalls' = r.calls
    /\ ret' = Call("clearState", 0, NULL)
    /\ hist' = <<>>
    /\ UNCHANGED <<NDEBUG, adapter, myJPSDeltaT, myExitTolerance, geoVars, handles, eventRegistered,
                   heap, jps, host, pc, stateIt>>

\* ---------------------------------------------------- pedestrian insertion
\* A stage of a pedestrian's plan: its type and the point at which it arrives
\* (positionAtOffset of the destination's sidewalk at the arrival position, or
\* at the stop's access position).
StageTypes == {"WALKING", "TRIP", "DRIVING"}
Stages == [type : StageTypes, arrival : WaypointPositions]

\* Remaining plans add can see: the current stage, which is a walking stage
\* (the assertion of add), followed by up to MaxStages - 1 further stages.
Plans == {pl \in (SeqsUpTo(Stages, MaxStages) \ {<<>>}) : pl[1].type = "WALKING"}

\* Outcomes of the engine's calls in add: no error, an error in the at-th
\* addWaypoint (from AddStageWaypoint, CreateFixedTransition or
\* SetTransitionForStage), or an error from AddJourney.
Failures ==
    {[at |-> 0, kind |-> "none"], [at |-> 0, kind |-> "journey"]} \cup
    {[at |-> i, kind |-> k] :
        i \in 1..MaxStages, k \in {"waypoint", "transition", "setTransition"}}

\* Number of waypoints add builds for a plan: one per stage up to the first
\* that is followed by a stage that is neither walking nor a trip.
RECURSIVE numWaypoints(_, _)
numWaypoints(plan, n) ==
    IF Len(plan) > n /\ plan[n + 1].type \in {"WALKING", "TRIP"}
    THEN numWaypoints(plan, n + 1) ELSE n

\* The failures that can occur for a plan: in an addWaypoint call that is
\* made, and for a transition only where there is a predecessor.
FailuresOf(plan) ==
    {f \in Failures : /\ f.at <= numWaypoints(plan, 1)
                      /\ f.kind \in {"transition", "setTransition"} => f.at >= 2}

\* PState::PState: agent id 0, position (0, 0), angle 0, waiting to enter.
PState(obj, person, journey, journeyId, stageId, waypoints) ==
    [obj |-> obj, person |-> person, journey |-> journey, journeyId |-> journeyId,
     stageId |-> stageId, waypoints |-> waypoints,
     agentId |-> 0, pos |-> <<0, 0>>, prevPos |-> <<0, 0>>, angle |-> 0,
     lanePos |-> 0, waiting |-> TRUE]

\* PState::~PState: the journey description is freed.
PStateDestructor(state) == <<<<"JPS_JourneyDescription_Free", state.journey>>>>

\* PState::getPosition.
getPosition(state) == state.pos

\* PState::setPosition.
setPosition(state, x, y) == [state EXCEPT !.pos = <<x, y>>]

\* PState::setPreviousPosition.
setPreviousPosition(state, previousPosition) ==
    [state EXCEPT !.prevPos = previousPosition]

\* PState::setAngle.
setAngle(state, angle) == [state EXCEPT !.angle = angle]

\* PState::setLanePosition.
setLanePosition(state, lanePosition) == [state EXCEPT !.lanePos = lanePosition]

\* Variant of setAgentId that leaves the waiting-to-enter flag set.
setAgentIdKeepingFlag(state, id) == [state EXCEPT !.agentId = id]

\* PState::setAgentId (declared in the header): stores the id and clears the
\* waiting-to-enter flag.
setAgentId(state, id) == [state EXCEPT !.agentId = id, !.waiting = FALSE]

\* PState::isWaitingToEnter (declared in the header).
isWaitingToEnter(state) == state.waiting

\* PState::getNextWaypoint.
getNextWaypoint(state) == Head(state.waypoints)

\* PState::advanceNextWaypoint (declared in the header): pops the front of the
\* queue and tells whether the queue is now empty.
advanceNextWaypoint(state) ==
    [state |-> [state EXCEPT !.waypoints = Tail(state.waypoints)],
     empty |-> Len(state.waypoints) = 1]

\* Lengths in metres are fractions <<numerator, denominator>>.
EqualQ(p, q) == p[1] * q[2] = q[1] * p[2]
PlusQ(p, q) == <<p[1] * q[2] + q[1] * p[2], p[2] * q[2]>>
TimesQ(p, q) == <<p[1] * q[1], p[2] * q[2]>>

\* The vehicle type of a person: whether length and width were set, and the
\* values getLength and getWidth return.
Lengths == {<<n, 10>> : n \in 1..MaxLength}
VehicleTypes == [lengthSet : BOOLEAN, widthSet : BOOLEAN, length : Lengths, width : Lengths]

\* Variant of the radius that takes the width where only the length was set.
radiusFromWidth(type) ==
    IF type.lengthSet /\ type.widthSet
    THEN TimesQ(<<25, 100>>, PlusQ(type.length, type.width))
    ELSE IF type.lengthSet \/ type.widthSet
    THEN TimesQ(<<5, 10>>, type.width)
    ELSE <<3, 10>>

\* agent_parameters.radius of tryPedestrianInsertion (lines 100-110).
radius(type) ==
    IF type.lengthSet \/ type.widthSet
    THEN IF ~type.widthSet
         THEN TimesQ(<<5, 10>>, type.length)
         ELSE IF ~type.lengthSet
         THEN TimesQ(<<5, 10>>, type.width)
         ELSE TimesQ(<<25, 100>>, PlusQ(type.length, type.width))
    ELSE <<3, 10>>

\* Variant of tryPedestrianInsertion that asks the engine a second time after
\* an error.
tryPedestrianInsertionRetrying(state, engine) ==
    IF ~engine.ok
    THEN [state |-> state,
          calls |-> <<<<"JPS_Simulation_AddCollisionFreeSpeedModelAgent", 0>>,
                      <<"WRITE_WARNING adding person", state.person>>,
                      <<"JPS_Simulation_AddCollisionFreeSpeedModelAgent", 0>>,
                      <<"WRITE_WARNING adding person", state.person>>>>]
    ELSE [state |-> setAgentId(state, engine.id),
          calls |-> <<<<"JPS_Simulation_AddCollisionFreeSpeedModelAgent", engine.id>>>>]

\* Variant of tryPedestrianInsertion that stores the returned id although the
\* engine reported an error.
tryPedestrianInsertionIgnoringError(state, engine) ==
    [state |-> setAgentId(state, engine.id),
     calls |-> <<<<"JPS_Simulation_AddCollisionFreeSpeedModelAgent", engine.id>>>>]

\* Variant of tryPedestrianInsertion that stores the agent id without going
\* through setAgentId.
tryPedestrianInsertionKeepingFlag(state, engine) ==
    IF ~engine.ok
    THEN [state |-> state,
          calls |-> <<<<"JPS_Simulation_AddCollisionFreeSpeedModelAgent", 0>>,
                      <<"WRITE_WARNING adding person", state.person>>>>]
    ELSE [state |-> [state EXCEPT !.agentId = engine.id],
          calls |-> <<<<"JPS_Simulation_AddCollisionFreeSpeedModelAgent", engine.id>>>>]

\* Variant of tryPedestrianInsertion that never stores the agent id.
tryPedestrianInsertionDroppingId(state, engine) ==
    IF ~engine.ok
    THEN [state |-> state,
          calls |-> <<<<"JPS_Simulation_AddCollisionFreeSpeedModelAgent", 0>>,
                      <<"WRITE_WARNING adding person", state.person>>>>]
    ELSE [state |-> state,
          calls |-> <<<<"JPS_Simulation_AddCollisionFreeSpeedModelAgent", engine.id>>>>]

\* tryPedestrianInsertion: engine is [ok, id], the engine's answer to
\* JPS_Simulation_AddCollisionFreeSpeedModelAgent.
tryPedestrianInsertion(state, engine) ==
    IF ~engine.ok
    THEN [state |-> state,
          calls |-> <<<<"JPS_Simulation_AddCollisionFreeSpeedModelAgent", 0>>,
                      <<"WRITE_WARNING adding person", state.person>>>>]
    ELSE [state |-> setAgentId(state, engine.id),
          calls |-> <<<<"JPS_Simulation_AddCollisionFreeSpeedModelAgent", engine.id>>>>]

\* The engine's agents after the insertion attempt for state.
agentsAfterInsertion(agents, state, engine) ==
    IF engine.ok
    THEN (engine.id :> Placement(state.pos)) @@ agents
    ELSE agents

\* Variant of addWaypoint that goes on after an error of AddStageWaypoint.
addWaypointWithoutReturn(j, predecessor, point, fail) ==
    LET waypointId == j.stages + 1
        j1 == [j EXCEPT !.stages = waypointId]
    IN  IF fail = "waypoint"
        THEN [ok |-> TRUE, jps |-> j, predecessor |-> waypointId,
              calls |-> <<<<"JPS_Simulation_AddStageWaypoint", 0, point>>,
                          <<"WRITE_WARNING adding waypoint", 0>>,
                          <<"JPS_JourneyDescription_AddStage", waypointId>>>>]
        ELSE [ok |-> TRUE, jps |-> j1, predecessor |-> waypointId,
              calls |-> <<<<"JPS_Simulation_AddStageWaypoint", waypointId, point>>,
                          <<"JPS_JourneyDescription_AddStage", waypointId>>>>]

\* Variant of addWaypoint that never links the waypoint to its predecessor.
addWaypointUnlinked(j, predecessor, point, fail) ==
    IF fail = "waypoint"
    THEN [ok |-> FALSE, jps |-> j, predecessor |-> predecessor,
          calls |-> <<<<"JPS_Simulation_AddStageWaypoint", 0, point>>,
                      <<"WRITE_WARNING adding waypoint", 0>>>>]
    ELSE [ok |-> TRUE, jps |-> [j EXCEPT !.stages = @ + 1], predecessor |-> j.stages + 1,
          calls |-> <<<<"JPS_Simulation_AddStageWaypoint", j.stages + 1, point>>,
                      <<"JPS_JourneyDescription_AddStage", j.stages + 1>>>>]

\* addWaypoint: j is the engine's registries, fail the error the engine
\* reports in this call ("none" for no error).
addWaypoint(j, predecessor, point, fail) ==
    LET waypointId == j.stages + 1
        j1 == [j EXCEPT !.stages = waypointId]
        cW == <<<<"JPS_Simulation_AddStageWaypoint", waypointId, point>>>>
        cT == cW \o <<<<"JPS_Transition_CreateFixedTransition", waypointId>>>>
        j2 == [j1 EXCEPT !.transitions = @ + 1]
        cS == cT \o <<<<"JPS_JourneyDescription_SetTransitionForStage", predecessor>>>>
        cF == cS \o <<<<"JPS_Transition_Free", waypointId>>>>
        cA == <<<<"JPS_JourneyDescription_AddStage", waypointId>>>>
    IN  IF fail = "waypoint"
        THEN [ok |-> FALSE, jps |-> j, predecessor |-> predecessor,
              calls |-> <<<<"JPS_Simulation_AddStageWaypoint", 0, point>>,
                          <<"WRITE_WARNING adding waypoint", 0>>>>]
        ELSE IF predecessor # 0 /\ fail = "transition"
        THEN [ok |-> FALSE, jps |-> j1, predecessor |-> predecessor,
              calls |-> cW \o <<<<"JPS_Transition_CreateFixedTransition", 0>>,
                                <<"WRITE_WARNING creating fixed transition", 0>>>>]
        ELSE IF predecessor # 0 /\ fail = "setTransition"
        THEN [ok |-> FALSE, jps |-> j2, predecessor |-> predecessor,
              calls |-> cS \o <<<<"WRITE_WARNING setting transition", 0>>>>]
        ELSE IF predecessor # 0
        THEN [ok |-> TRUE, jps |-> j1, predecessor |-> waypointId, calls |-> cF \o cA]
        ELSE [ok |-> TRUE, jps |-> j1, predecessor |-> waypointId, calls |-> cW \o cA]

\* The stage scan of add (lines 196-216): acc is [ok, jps, predecessor,
\* startingStage, waypoints, calls, stageOffset].
RECURSIVE scanStages(_, _, _)
scanStages(plan, failure, acc) ==
    IF ~(Len(plan) > acc.stageOffset) THEN acc
    ELSE IF plan[acc.stageOffset + 1].type \notin {"WALKING", "TRIP"} THEN acc
    ELSE LET point == plan[acc.stageOffset].arrival
             fail == IF failure.at = acc.stageOffset THEN failure.kind ELSE "none"
             w == addWaypoint(acc.jps, acc.predecessor, point, fail)
             next == [ok |-> w.ok, jps |-> w.jps, predecessor |-> w.predecessor,
                      startingStage |-> IF acc.startingStage = 0 /\ w.ok
                                        THEN w.predecessor ELSE acc.startingStage,
                      waypoints |-> Append(acc.waypoints, point),
                      calls |-> acc.calls \o w.calls,
                      stageOffset |-> acc.stageOffset + 1]
         IN  IF ~w.ok THEN next ELSE scanStages(plan, failure, next)

\* Variant of the lookup that finds no state.
findStateNever(states, person, i) == 0

\* The lookup of add (lines 156-160): index of the state of person, 0 if none.
RECURSIVE findState(_, _, _)
findState(states, person, i) ==
    IF i > Len(states) THEN 0
    ELSE IF states[i].person = person THEN i
    ELSE findState(states, person, i + 1)

\* Variant of journeyWaypoints without the arrival position.
journeyWaypointsWithoutArrival(scanned, arrivalPosition) == scanned

\* The waypoint queue of the new state: the scanned waypoints, then the
\* arrival position of the last stage (line 221).
journeyWaypoints(scanned, arrivalPosition) == Append(scanned, arrivalPosition)

\* The end of add (lines 237-246): the new state is placed at the departure
\* point, tracked and counted, and its insertion is attempted.  registered is
\* the engine after AddJourney, calls the engine calls made so far.
addState(a, dep, engine, registered, calls, fresh) ==
    LET placed == [fresh EXCEPT !.lanePos = dep.lanePos, !.prevPos = dep.pos,
                                !.pos = dep.pos, !.angle = dep.angle]
    IN  [ret |-> fresh.obj,
         states |-> Append(a.states, tryPedestrianInsertion(placed, engine).state),
         num |-> a.num + 1,
         heap |-> a.heap + 1,
         jps |-> [registered EXCEPT !.agents = agentsAfterInsertion(@, placed, engine)],
         calls |-> calls \o tryPedestrianInsertion(placed, engine).calls]

\* add from JPS_Simulation_AddJourney on (lines 229-246): scan is the result
\* of the stage scan, last that of the addWaypoint call for the arrival
\* position, waypoints the queue of the new state.
addJourney(a, person, dep, failure, engine, scan, last, waypoints) ==
    IF ~last.ok
    THEN [ret |-> NULL, states |-> a.states, num |-> a.num, heap |-> a.heap,
          jps |-> last.jps, calls |-> scan.calls \o last.calls]
    ELSE IF failure.kind = "journey"
    THEN [ret |-> NULL, states |-> a.states, num |-> a.num, heap |-> a.heap,
          jps |-> last.jps,
          calls |-> scan.calls \o last.calls
                    \o <<<<"JPS_Simulation_AddJourney", 0>>,
                          <<"WRITE_WARNING adding journey", 0>>>>]
    ELSE addState(a, dep, engine,
                  [last.jps EXCEPT !.journeys = @ + 1],
                  scan.calls \o last.calls
                      \o <<<<"JPS_Simulation_AddJourney", last.jps.journeys + 1>>>>,
                  PState(a.heap + 1, person, a.jps.descriptions + 1,
                         last.jps.journeys + 1,
                         IF scan.startingStage = 0 THEN last.predecessor
                         ELSE scan.startingStage,
                         waypoints))

\* add from the arrival waypoint on (lines 218-246).
addArrival(a, person, plan, dep, failure, engine, scan) ==
    IF ~scan.ok
    THEN [ret |-> NULL, states |-> a.states, num |-> a.num, heap |-> a.heap,
          jps |-> scan.jps, calls |-> scan.calls]
    ELSE addJourney(a, person, dep, failure, engine, scan,
                    addWaypoint(scan.jps, scan.predecessor,
                                plan[scan.stageOffset].arrival,
                                IF failure.at = scan.stageOffset
                                THEN failure.kind ELSE "none"),
                    journeyWaypoints(scan.waypoints, plan[scan.stageOffset].arrival))

\* add after the lookup found no state (lines 192-246): the journey
\* description is created and the stages are scanned.
addNew(a, person, plan, dep, failure, engine) ==
    addArrival(a, person, plan, dep, failure, engine,
               scanStages(plan, failure,
                          [ok |-> TRUE,
                           jps |-> [a.jps EXCEPT !.descriptions = @ + 1],
                           predecessor |-> 0, startingStage |-> 0,
                           waypoints |-> <<>>,
                           calls |-> <<<<"JPS_JourneyDescription_Create",
                                         a.jps.descriptions + 1>>>>,
                           stageOffset |-> 1]))

\* The return of add for a pedestrian that is tracked at index found.
addFound(a, found) ==
    [ret |-> a.states[found].obj, states |-> a.states, num |-> a.num,
     heap |-> a.heap, jps |-> a.jps, calls |-> <<>>]

\* ---- departure position (add, lines 161-190)
\* Position::INVALID, which lies in no zone.
INVALID == <<-1, -1>>

\* The points RandHelper::rand can produce within the bounding box of a zone
\* shape, and the zone shapes: a shape is given by the points of its box that
\* lie within its polygon.
BoxPoints == {<<0, 0>>, <<0, 1>>, <<1, 0>>, <<1, 1>>}
TazShapes == (SUBSET BoxPoints) \ {{}}

\* PositionVector::around (of the host's geometry utilities): whether the
\* point lies within the polygon.
around(shape, p) == p \in shape

\* Variant of the sampling loop that checks the shape only before the first
\* draw.
tazSampleOnce(shape, departurePosition, samples) ==
    IF around(shape, departurePosition) \/ samples = <<>>
    THEN [returned |-> around(shape, departurePosition), pos |-> departurePosition]
    ELSE [returned |-> TRUE, pos |-> Head(samples)]

\* The sampling loop (lines 172-176): samples are the points the random
\* generator produces, in order; the loop has not ended when they run out.
RECURSIVE tazSample(_, _, _)
tazSample(shape, departurePosition, samples) ==
    IF around(shape, departurePosition)
    THEN [returned |-> TRUE, pos |-> departurePosition]
    ELSE IF samples = <<>>
    THEN [returned |-> FALSE, pos |-> departurePosition]
    ELSE tazSample(shape, Head(samples), Tail(samples))

\* What add reads of the person and its trip origin for the departure.
DepartureCases ==
    [stageIndex : {1, 2}, randomLocation : BOOLEAN, tazConnector : BOOLEAN,
     shapeRegistered : BOOLEAN]

\* The departure position of add (lines 161-190): lanePoint is the point of
\* the departure lane at the departure offset, used when no zone point was
\* drawn.
departurePosition(case, shape, samples, lanePoint) ==
    IF case.stageIndex = 2 /\ case.randomLocation /\ case.tazConnector
    THEN IF ~case.shapeRegistered
         THEN [returned |-> TRUE, pos |-> lanePoint, fromZone |-> FALSE,
               calls |-> <<<<"WRITE_WARNING FromTaz has no shape", 0>>>>]
         ELSE IF tazSample(shape, INVALID, samples).pos = INVALID
         THEN [returned |-> tazSample(shape, INVALID, samples).returned,
               pos |-> lanePoint, fromZone |-> FALSE, calls |-> <<>>]
         ELSE [returned |-> tazSample(shape, INVALID, samples).returned,
               pos |-> tazSample(shape, INVALID, samples).pos,
               fromZone |-> TRUE, calls |-> <<>>]
    ELSE [returned |-> TRUE, pos |-> lanePoint, fromZone |-> FALSE, calls |-> <<>>]

\* MSPModel_JuPedSim::add.  a is the adapter and engine state
\* [states, num, heap, jps]; dep is the departure point and lane offset,
\* failure the engine's errors, engine its answer to the insertion attempt.
add(a, person, plan, dep, failure, engine) ==
    IF findState(a.states, person, 1) # 0
    THEN addFound(a, findState(a.states, person, 1))
    ELSE addNew(a, person, plan, dep, failure, engine)

\* The id the engine gives its next agent: the least positive id not in use.
NextAgentId(agents) == CHOOSE i \in 1..(Cardinality(DOMAIN agents) + 1) :
                           i \notin DOMAIN agents

\* The engine's answers to an insertion attempt: an error, or a new agent.
\* The engine holds at most MaxAdds agents, one for each add of a run.
EngineAnswers(agents) ==
    {[ok |-> FALSE, id |-> 0]} \cup
    (IF Cardinality(DOMAIN agents) < MaxAdds
     THEN {[ok |-> TRUE, id |-> NextAgentId(agents)]}
     ELSE {})

\* Departures: the lanes run along the x axis, so that the point at offset
\* getDepartPos of the departure lane has that offset as its x coordinate; the
\* departure lane has rotation 0.
Departures(region) == {[pos |-> g.pos, lanePos |-> g.pos[1], angle |-> 0] : g \in region}

Adapter == [states |-> myPedestrianStates, num |-> myNumActivePedestrians,
            heap |-> heap, jps |-> jps]

NoFailure == [at |-> 0, kind |-> "none"]
Rejected == [ok |-> FALSE, id |-> 0]

\* The plans with the engine failures that can occur for them.
FailingPlans == {c \in [plan : Plans, failure : Failures \ {NoFailure}] :
                    c.failure \in FailuresOf(c.plan)}

\* The calls of add the host can make.  The inputs that the call cannot read
\* (all of them when the pedestrian is tracked already, the departure and the
\* engine's answer when an engine call fails before) are fixed to one value.
AddCalls ==
    LET first == CHOOSE d \in Departures(jps.region) : TRUE
        onePlan == CHOOSE pl \in Plans : Len(pl) = 1
        tracked == {myPedestrianStates[i].person : i \in 1..Len(myPedestrianStates)}
        newcomers == IF jps.descriptions < MaxAdds THEN (DOMAIN host) \ tracked ELSE {}
    IN  {[person |-> p, plan |-> onePlan, dep |-> first, failure |-> NoFailure,
          engine |-> Rejected] : p \in tracked}
        \cup
        [person : newcomers, plan : Plans, dep : Departures(jps.region),
         failure : {NoFailure}, engine : EngineAnswers(jps.agents)]
        \cup
        {[person |-> p, plan |-> c.plan, dep |-> first, failure |-> c.failure,
          engine |-> Rejected] : p \in newcomers, c \in FailingPlans}

\* The effect of a call of add with result r on the adapter, the engine and
\* the host.
addEffect(r, person, engine) ==
    /\ myPedestrianStates' = r.states
    /\ myNumActivePedestrians' = r.num
    /\ heap' = r.heap
    /\ jps' = r.jps
    /\ jpsCalls' = r.calls
    /\ ret' = Call("add", person, r.ret)
    /\ host' = IF r.heap # heap THEN [host EXCEPT ![person] = 0] ELSE host
    /\ hist' = IF r.heap # heap
               THEN (r.ret :> [k |-> Len(r.states[Len(r.states)].waypoints),
                               detections |-> 0,
                               accepted |-> IF engine.ok THEN 1 ELSE 0,
                               deleted |-> FALSE])
                    @@ hist
               ELSE hist

Add ==
    /\ adapter = "alive"
    /\ pc = "idle"
    /\ \E c \in AddCalls :
         addEffect(add(Adapter, c.person, c.plan, c.dep, c.failure, c.engine),
                   c.person, c.engine)
    /\ UNCHANGED <<NDEBUG, adapter, myJPSDeltaT, myExitTolerance, geoVars, handles, eventRegistered, pc, stateIt>>

\* MSPModel_JuPedSim::remove: does nothing.
Remove ==
    /\ adapter = "alive"
    /\ pc = "idle"
    /\ jpsCalls' = <<>>
    /\ ret' = Call("remove", 0, NULL)
    /\ UNCHANGED <<NDEBUG, adapter, myJPSDeltaT, myExitTolerance, geoVars, handles, eventRegistered, pedVars>>

\* ------------------------------------------------------ step synchronizer
\* atan2 of an orientation vector, in degrees.
atan2(o) == IF o = <<1, 0>> THEN 0 ELSE 90

\* MSPersonStage_Walking::moveToNextEdge of the host, on the route step of
\* the person's current stage: at the last edge the person arrives and
\* proceeds to its next stage; otherwise the route step advances.
moveToNextEdge(step) ==
    IF step = RouteLen - 1
    THEN [arrived |-> TRUE, step |-> 0]
    ELSE [arrived |-> FALSE, step |-> step + 1]

\* while (!stage->moveToNextEdge(...)): the route step left behind and the
\* number of calls made.
RECURSIVE drainEdges(_, _)
drainEdges(step, n) ==
    LET m == moveToNextEdge(step)
    IN  IF m.arrived THEN [step |-> m.step, calls |-> n + 1]
        ELSE drainEdges(m.step, n + 1)

\* Variant of the near-waypoint test with <= for <.
nearWaypointInclusive(p, w, tolerance) ==
    distanceTo2DSq(p, w) <= (2 * tolerance) * (2 * tolerance)

\* The near-waypoint test of execute (line 319), on squared distances:
\* distanceTo2D(p, w) < 2 * tolerance.
nearWaypoint(p, w, tolerance) ==
    distanceTo2DSq(p, w) < (2 * tolerance) * (2 * tolerance)

\* Variant of registerArrived that leaves the counter alone.
registerArrivedNot(num) == num

\* registerArrived.
registerArrived(num) == num - 1

\* Results of moveToXYMap_matchingRoutePosition on the forward route that
\* starts at route step `step`: whether a lane was found, the route edge of the
\* candidate lane, whether it is that edge's sidewalk and whether it is a
\* normal lane.
NoMatch == [found |-> FALSE, edge |-> 0, sidewalk |-> FALSE, normal |-> FALSE]
Matches(step) ==
    {NoMatch} \cup [found : {TRUE}, edge : step..(RouteLen - 1), sidewalk : BOOLEAN,
                    normal : BOOLEAN]

\* The longitudinal position of a point on the matched lane: the lanes run
\* along the x axis.
candidateLaneLongitudinalPosition(position) == position[1]

\* Variant of refineLanePosition that sets the offset without a match.
refineLanePositionAlways(state, found, position) ==
    setLanePosition(state, candidateLaneLongitudinalPosition(position))

\* if (found) state->setLanePosition(candidateLaneLongitudinalPosition).
refineLanePosition(state, found, position) ==
    IF found
    THEN setLanePosition(state, candidateLaneLongitudinalPosition(position))
    ELSE state

\* One iteration of the loop over myPedestrianStates in execute (lines
\* 272-330) for the state at stateIt = i.  a is [states, num, jps, host];
\* engine answers an insertion attempt, match is the map-matching result,
\* expectedNormal is isNormal() of the sidewalk of the stage's current edge
\* and ndebug tells whether assert is compiled out.  An advance of line 314
\* that reports arrival fails the assertion of line 316: the process aborts
\* there, the state and the host as they are at that line; without the
\* assertion the iteration goes on with the stage fetched at line 281, whose
\* route step is still the last one.  object is the state the iteration has
\* worked on, as the iteration leaves it.
executeVisit(a, i, tolerance, engine, match, expectedNormal, ndebug) ==
    LET state == a.states[i]
        retried == tryPedestrianInsertion(state, engine)
        agent == a.jps.agents[state.agentId]
        moved == setAngle(setPosition(setPreviousPosition(state, getPosition(state)),
                                      agent.pos[1], agent.pos[2]),
                          atan2(agent.orientation))
        matched == refineLanePosition(moved, match.found, agent.pos)
        step0 == a.host[state.person]
        differs == match.found /\ expectedNormal /\ match.normal
                   /\ ~(match.edge = step0 /\ match.sidewalk)
        advanced == IF differs THEN moveToNextEdge(step0)
                    ELSE [arrived |-> FALSE, step |-> step0]
        cM == <<<<"moveToXYMap_matchingRoutePosition", IF match.found THEN 1 ELSE 0,
                  match.edge>>>>
              \o (IF differs
                  THEN <<<<"moveToNextEdge", IF advanced.arrived THEN 1 ELSE 0>>>>
                  ELSE <<>>)
        near == nearWaypoint(agent.pos, getNextWaypoint(matched), tolerance)
        stageStep == IF advanced.arrived THEN step0 ELSE advanced.step
        drained == drainEdges(stageStep, 0)
        popped == advanceNextWaypoint(matched)
    IN  IF isWaitingToEnter(state)
        THEN [states |-> [a.states EXCEPT ![i] = retried.state],
              num |-> a.num,
              jps |-> [a.jps EXCEPT !.agents = agentsAfterInsertion(@, state, engine)],
              host |-> a.host, stateIt |-> i + 1, calls |-> retried.calls,
              detected |-> FALSE, attempted |-> TRUE, aborted |-> FALSE,
              object |-> retried.state]
        ELSE IF advanced.arrived /\ ~ndebug
        THEN [states |-> [a.states EXCEPT ![i] = matched], num |-> a.num,
              jps |-> a.jps,
              host |-> [a.host EXCEPT ![state.person] = advanced.step],
              stateIt |-> i, calls |-> cM, detected |-> FALSE, attempted |-> FALSE,
              aborted |-> TRUE, object |-> matched]
        ELSE IF ~near
        THEN [states |-> [a.states EXCEPT ![i] = matched], num |-> a.num,
              jps |-> a.jps,
              host |-> [a.host EXCEPT ![state.person] = advanced.step],
              stateIt |-> i + 1, calls |-> cM, detected |-> FALSE, attempted |-> FALSE,
              aborted |-> FALSE, object |-> matched]
        ELSE IF popped.empty
        THEN [states |-> RemoveAt(a.states, i),
              num |-> registerArrived(a.num),
              jps |-> [a.jps EXCEPT !.agents =
                          [x \in (DOMAIN @) \ {state.agentId} |-> @[x]]],
              host |-> [a.host EXCEPT ![state.person] = drained.step],
              stateIt |-> i,
              calls |-> cM \o <<<<"moveToNextEdge until arrived", drained.calls>>,
                                <<"JPS_Simulation_MarkAgentForRemoval", state.agentId>>>>,
              detected |-> TRUE, attempted |-> FALSE, aborted |-> FALSE,
              object |-> popped.state]
        ELSE [states |-> [a.states EXCEPT ![i] = popped.state], num |-> a.num,
              jps |-> a.jps,
              host |-> [a.host EXCEPT ![state.person] = drained.step],
              stateIt |-> i,
              calls |-> cM \o <<<<"moveToNextEdge until arrived", drained.calls>>>>,
              detected |-> TRUE, attempted |-> FALSE, aborted |-> FALSE,
              object |-> popped.state]

\* Variant of nbrIterations that rounds up.
nbrIterationsRoundedUp(deltaT, jpsDeltaT) == (deltaT + jpsDeltaT - 1) \div jpsDeltaT

\* nbrIterations of execute (line 259): (int)(DELTA_T / myJPSDeltaT), a
\* division of two positive integer times.
nbrIterations(deltaT, jpsDeltaT) == deltaT \div jpsDeltaT

\* The engine iterations of execute (lines 259-267): errors is the set of
\* iterations for which JPS_Simulation_Iterate reports an error.
RECURSIVE iterate(_, _, _)
iterate(i, n, errors) ==
    IF ~(i < n) THEN <<>>
    ELSE <<<<"JPS_Simulation_Iterate", i>>>>
         \o (IF i \in errors THEN <<<<"WRITE_ERROR iteration", i>>>> ELSE <<>>)
         \o iterate(i + 1, n, errors)

\* execute, up to the pedestrian loop: the engine moves its agents.
ExecuteBegin ==
    /\ adapter = "alive"
    /\ pc = "idle"
    /\ \E errors \in SUBSET (0..(nbrIterations(DELTA_T, myJPSDeltaT) - 1)),
          agents \in [DOMAIN jps.agents -> jps.region] :
         /\ jps' = [jps EXCEPT !.agents = agents]
         /\ jpsCalls' = iterate(0, nbrIterations(DELTA_T, myJPSDeltaT), errors)
    /\ pc' = "loop"
    /\ stateIt' = 1
    /\ ret' = Call("executeBegin", 0, NULL)
    /\ UNCHANGED <<NDEBUG, adapter, myJPSDeltaT, myExitTolerance, geoVars, handles, eventRegistered,
                   myPedestrianStates, myNumActivePedestrians, heap, host, hist>>

\* execute, one iteration of the pedestrian loop.  A failed assertion ends
\* the process: no handler runs after it.
ExecuteVisit ==
    /\ pc = "loop"
    /\ stateIt <= Len(myPedestrianStates)
    /\ \E engine \in IF isWaitingToEnter(myPedestrianStates[stateIt])
                      THEN EngineAnswers(jps.agents) ELSE {Rejected},
          match \in IF isWaitingToEnter(myPedestrianStates[stateIt])
                     THEN {NoMatch}
                     ELSE Matches(host[myPedestrianStates[stateIt].person]),
          expectedNormal \in IF isWaitingToEnter(myPedestrianStates[stateIt])
                              THEN {TRUE} ELSE BOOLEAN :
         LET r == executeVisit([states |-> myPedestrianStates,
                                num |-> myNumActivePedestrians,
                                jps |-> jps, host |-> host],
                               stateIt, myExitTolerance, engine, match,
                               expectedNormal, NDEBUG)
         IN  /\ myPedestrianStates' = r.states
             /\ pc' = IF r.aborted THEN "aborted" ELSE pc
             /\ myNumActivePedestrians' = r.num
             /\ jps' = r.jps
             /\ host' = r.host
             /\ stateIt' = r.stateIt
             /\ jpsCalls' = r.calls
             /\ ret' = Call("executeVisit", myPedestrianStates[stateIt].obj,
                            IF r.detected THEN 1 ELSE 0)
             /\ hist' = LET o == myPedestrianStates[stateIt].obj
                            h == [hist EXCEPT
                                    ![o].detections = IF r.detected THEN @ + 1 ELSE @,
                                    ![o].accepted = IF r.attempted /\ engine.ok
                                                    THEN @ + 1 ELSE @]
                        IN  Restrict(h, Tracked(r.states))
    /\ UNCHANGED <<NDEBUG, adapter, myJPSDeltaT, myExitTolerance, geoVars, handles, eventRegistered, heap>>

\* execute, after the loop: returns DELTA_T.
ExecuteEnd ==
    /\ pc = "loop"
    /\ stateIt > Len(myPedestrianStates)
    /\ pc' = "idle"
    /\ stateIt' = 1
    /\ jpsCalls' = <<<<"JPS_ErrorMessage_Free", 0>>>>
    /\ ret' = Call("executeEnd", 0, NULL)
    /\ UNCHANGED <<NDEBUG, adapter, myJPSDeltaT, myExitTolerance, geoVars, handles, eventRegistered,
                   myPedestrianStates, myNumActivePedestrians, heap, jps, host, hist>>

\* State after a successful construction on a network of two components.
Init ==
    LET r == initialize(TwoComponents, TRUE, TRUE, TRUE, NULL)
    IN  /\ NDEBUG \in BOOLEAN
        /\ adapter = "alive"
        /\ myJPSDeltaT \in StepLengths
        /\ myExitTolerance \in ExitTolerances
        /\ myGEOSPedestrianNetwork = r.network
        /\ maxAreaComponent = r.best
        /\ handles = r.handles
        /\ eventRegistered = TRUE
        /\ myPedestrianStates = <<>>
        /\ myNumActivePedestrians = 0
        /\ heap = 0
        /\ jps \in {EmptyJps(g) : g \in PointRegions}
        /\ host = [p \in Persons |-> 0]
        /\ pc = "idle"
        /\ stateIt = 1
        /\ jpsCalls = Append(r.calls, <<"addEvent", 0>>)
        /\ ret = Call("ctor", 1, NULL)
        /\ hist = <<>>

\* The same with one pedestrian in a geometry of two points, and the finest
\* engine step.
InitWalk ==
    LET r == initialize(TwoComponents, TRUE, TRUE, TRUE, NULL)
    IN  /\ NDEBUG \in BOOLEAN
        /\ adapter = "alive"
        /\ myJPSDeltaT \in {t \in StepLengths : \A u \in StepLengths : t <= u}
        /\ myExitTolerance \in ExitTolerances
        /\ myGEOSPedestrianNetwork = r.network
        /\ maxAreaComponent = r.best
        /\ handles = r.handles
        /\ eventRegistered = TRUE
        /\ myPedestrianStates = <<>>
        /\ myNumActivePedestrians = 0
        /\ heap = 0
        /\ jps \in {EmptyJps(g) : g \in WalkRegions}
        /\ host = [p \in {1} |-> 0]
        /\ pc = "idle"
        /\ stateIt = 1
        /\ jpsCalls = Append(r.calls, <<"addEvent", 0>>)
        /\ ret = Call("ctor", 1, NULL)
        /\ hist = <<>>

Next ==
    \/ Add
    \/ Remove
    \/ ExecuteBegin
    \/ ExecuteVisit
    \/ ExecuteEnd
    \/ ClearState
    \/ Destroy

Spec == Init /\ [][Next]_vars

SpecWalk == InitWalk /\ [][Next]_vars

\* A simulation, with the finest engine step, of one pedestrian at the point
\* (2, 0) into which MaxAdds - 1
\* pedestrians of one walking stage have come and gone before: their journey
\* descriptions, waypoints, journeys and state objects are counted, nothing
\* is tracked.
InitRetry ==
    LET r == initialize(TwoComponents, TRUE, TRUE, TRUE, NULL)
    IN  /\ NDEBUG \in BOOLEAN
        /\ adapter = "alive"
        /\ myJPSDeltaT \in {t \in StepLengths : \A u \in StepLengths : t <= u}
        /\ myExitTolerance \in ExitTolerances
        /\ myGEOSPedestrianNetwork = r.network
        /\ maxAreaComponent = r.best
        /\ handles = r.handles
        /\ eventRegistered = TRUE
        /\ myPedestrianStates = <<>>
        /\ myNumActivePedestrians = 0
        /\ heap = MaxAdds - 1
        /\ jps \in {[EmptyJps(g) EXCEPT !.stages = MaxAdds - 1, !.descriptions = MaxAdds - 1,
                                         !.journeys = MaxAdds - 1] : g \in PointRegions}
        /\ host = [p \in {1} |-> 0]
        /\ pc = "idle"
        /\ stateIt = 1
        /\ jpsCalls = <<>>
        /\ ret = Call("remove", 0, NULL)
        /\ hist = <<>>

\* The engine accepts the agent of person p in a visit of execute.
AcceptingVisit(p) ==
    /\ pc = "loop"
    /\ stateIt <= Len(myPedestrianStates)
    /\ myPedestrianStates[stateIt].person = p
    /\ isWaitingToEnter(myPedestrianStates[stateIt])
    /\ ExecuteVisit
    /\ jpsCalls'[1][2] # 0

\* A simulation in which execute keeps being called (it is a recurring event
\* of the host's scheduler: it returns DELTA_T and is called again, and its
\* loop runs to its end) and the engine does not reject the agent of a
\* person forever.
SpecRetry ==
    /\ InitRetry
    /\ [][Next]_vars
    /\ WF_vars(ExecuteBegin) /\ WF_vars(ExecuteVisit) /\ WF_vars(ExecuteEnd)
    /\ \A p \in Persons : SF_vars(AcceptingVisit(p))

\* -------------------------------------- member functions on their own
\* execute is the only caller of registerArrived and of the setters of a
\* state in this file, and nothing in it deletes a state.  The actions below
\* are calls of these member functions from outside the model's handlers,
\* between two handlers.
\*
\* myPedestrianStates holds pointers.  A state that is deleted stays in the
\* vector, and what the handlers then read through the pointer is freed
\* memory: the language does not say what they find.  Each such read is a
\* choice between the outcomes of the builds of this file (with and without
\* -DNDEBUG, with and without optimisation): the allocator has overwritten
\* the start of the freed object, where the pointer to the virtual functions
\* and myPerson lie, and gives the freed memory to the next state that add
\* creates; or the freed memory is left alone.  Records of the vector with
\* the same obj are one object, seen through several pointers; the record of
\* a deleted object is the memory as the destructor left it.

\* Angles and lane positions a caller passes to the setters.
Angles == {0, 90}
LanePositions == {p[1] : p \in Positions}

\* The state the i-th entry of the vector points to has been deleted.
Deleted(i) == hist[myPedestrianStates[i].obj].deleted

\* The objects that have been deleted while the vector points to them.
DeletedObjects ==
    {myPedestrianStates[i].obj : i \in {j \in 1..Len(myPedestrianStates) : Deleted(j)}}

\* A write to the object obj, or the construction of a state at its address,
\* is seen through every entry of the vector that points to it.
shareObject(states, obj, state) ==
    [j \in 1..Len(states) |-> IF states[j].obj = obj THEN state ELSE states[j]]

\* The process ends at a read of overwritten freed memory (a signal, no
\* state left): no handler runs after it.
processEnds(op, obj) ==
    /\ pc' = "ended"
    /\ jpsCalls' = <<>>
    /\ ret' = Call(op, obj, NULL)
    /\ UNCHANGED <<NDEBUG, adapter, myJPSDeltaT, myExitTolerance, geoVars, handles, eventRegistered,
                   myPedestrianStates, myNumActivePedestrians, heap, jps, host, stateIt, hist>>

\* registerArrived, called on its own: the counter is lowered, the tracked
\* set is left alone.
RegisterArrived ==
    /\ adapter = "alive"
    /\ pc = "idle"
    /\ myNumActivePedestrians > -MaxAdds
    /\ myNumActivePedestrians' = registerArrived(myNumActivePedestrians)
    /\ jpsCalls' = <<>>
    /\ ret' = Call("registerArrived", 0, NULL)
    /\ UNCHANGED <<NDEBUG, adapter, myJPSDeltaT, myExitTolerance, geoVars, handles, eventRegistered,
                   myPedestrianStates, heap, jps, host, pc, stateIt, hist>>

\* The effect of a setter on the state the i-th entry points to.  A setter
\* writes a member that the allocator does not touch: on a deleted state the
\* write lands in the freed memory and nothing else changes.
setterEffect(i, op, state) ==
    /\ myPedestrianStates' = shareObject(myPedestrianStates, myPedestrianStates[i].obj, state)
    /\ jpsCalls' = <<>>
    /\ ret' = Call(op, myPedestrianStates[i].obj, NULL)
    /\ UNCHANGED <<NDEBUG, adapter, myJPSDeltaT, myExitTolerance, geoVars, handles, eventRegistered,
                   myNumActivePedestrians, heap, jps, host, pc, stateIt, hist>>

SetPosition ==
    /\ adapter = "alive"
    /\ pc = "idle"
    /\ \E i \in 1..Len(myPedestrianStates), p \in Positions :
         setterEffect(i, "setPosition", setPosition(myPedestrianStates[i], p[1], p[2]))

SetPreviousPosition ==
    /\ adapter = "alive"
    /\ pc = "idle"
    /\ \E i \in 1..Len(myPedestrianStates), p \in Positions :
         setterEffect(i, "setPreviousPosition",
                      setPreviousPosition(myPedestrianStates[i], p))

SetAngle ==
    /\ adapter = "alive"
    /\ pc = "idle"
    /\ \E i \in 1..Len(myPedestrianStates), angle \in Angles :
         setterEffect(i, "setAngle", setAngle(myPedestrianStates[i], angle))

SetLanePosition ==
    /\ adapter = "alive"
    /\ pc = "idle"
    /\ \E i \in 1..Len(myPedestrianStates), lanePosition \in LanePositions :
         setterEffect(i, "setLanePosition",
                      setLanePosition(myPedestrianStates[i], lanePosition))

\* A tracked state is deleted: its destructor frees the journey description;
\* the vector keeps the pointer and the counter its value.
DeletePState ==
    /\ adapter = "alive"
    /\ pc = "idle"
    /\ \E i \in 1..Len(myPedestrianStates) :
         LET state == myPedestrianStates[i]
         IN  /\ ~Deleted(i)
             /\ jpsCalls' = PStateDestructor(state)
             /\ ret' = Call("~PState", state.obj, NULL)
             /\ hist' = [hist EXCEPT ![state.obj].deleted = TRUE]
    /\ UNCHANGED <<NDEBUG, adapter, myJPSDeltaT, myExitTolerance, geoVars, handles, eventRegistered,
                   myPedestrianStates, myNumActivePedestrians, heap, jps, host, pc, stateIt>>

\* A deleted state is deleted a second time: the destructor is called
\* through the overwritten pointer to the virtual functions.
DeleteDeletedPState ==
    /\ adapter = "alive"
    /\ pc = "idle"
    /\ \E i \in 1..Len(myPedestrianStates) :
         /\ Deleted(i)
         /\ processEnds("~PState", myPedestrianStates[i].obj)

\* The lookup of add (lines 156-160) when the freed memory has been
\* overwritten: myPerson of a deleted state is the person of no call.
findStateOverwritten(states, deleted, person) ==
    findState([j \in 1..Len(states) |->
                  IF states[j].obj \in deleted
                  THEN [states[j] EXCEPT !.person = NULL] ELSE states[j]],
              person, 1)

\* The calls of add the host can make while the vector points to a deleted
\* state.
AddAfterDeleteCalls ==
    LET first == CHOOSE d \in Departures(jps.region) : TRUE
    IN  [person : DOMAIN host, plan : Plans, dep : Departures(jps.region),
         failure : {NoFailure}, engine : EngineAnswers(jps.agents)]
        \cup
        {[person |-> p, plan |-> c.plan, dep |-> first, failure |-> c.failure,
          engine |-> Rejected] : p \in DOMAIN host, c \in FailingPlans}

\* The effect of a call of add with result r when the new state, if one is
\* created, is constructed at address: NULL for memory that no entry of the
\* vector points to, or a deleted object, which the new state replaces.
addAfterDeleteEffect(r, person, engine, address) ==
    LET created == r.heap # heap
        states == IF created
                  THEN shareObject(r.states, address, r.states[Len(r.states)])
                  ELSE r.states
    IN  /\ myPedestrianStates' = states
        /\ myNumActivePedestrians' = r.num
        /\ heap' = r.heap
        /\ jps' = r.jps
        /\ jpsCalls' = r.calls
        /\ ret' = Call("add", person, r.ret)
        /\ host' = IF created THEN [host EXCEPT ![person] = 0] ELSE host
        /\ hist' = IF created
                   THEN Restrict((r.ret :> [k |-> Len(r.states[Len(r.states)].waypoints),
                                            detections |-> 0,
                                            accepted |-> IF engine.ok THEN 1 ELSE 0,
                                            deleted |-> FALSE])
                                 @@ hist,
                                 Tracked(states))
                   ELSE hist

\* add while the vector points to a deleted state.  The lookup reads the
\* deleted states that precede the state of the person: it finds the person
\* they held, or none when the memory has been overwritten.  An add that
\* finds no state creates one (lines 192-246), at the address of a deleted
\* state or elsewhere; an entry of the vector that points to that address
\* then points to the new state.
AddAfterDelete ==
    /\ adapter = "alive"
    /\ pc = "idle"
    /\ DeletedObjects # {}
    /\ jps.descriptions < MaxAddsAfterDelete
    /\ \E c \in AddAfterDeleteCalls, overwritten \in BOOLEAN,
          address \in {NULL} \cup DeletedObjects :
         LET found == IF overwritten
                      THEN findStateOverwritten(myPedestrianStates, DeletedObjects, c.person)
                      ELSE findState(myPedestrianStates, c.person, 1)
         IN  addAfterDeleteEffect(IF found # 0 THEN addFound(Adapter, found)
                                  ELSE addNew(Adapter, c.person, c.plan, c.dep,
                                              c.failure, c.engine),
                                  c.person, c.engine, address)
    /\ UNCHANGED <<NDEBUG, adapter, myJPSDeltaT, myExitTolerance, geoVars, handles, eventRegistered, pc, stateIt>>

\* add while the vector points to no deleted state.
AddDefined == DeletedObjects = {} /\ Add

\* The members that an iteration of the pedestrian loop reads are those of a
\* state that waits to enter, or of one that has an agent in the engine and
\* a waypoint in its queue.
Visitable(state) ==
    \/ isWaitingToEnter(state)
    \/ state.waypoints # <<>> /\ state.agentId \in DOMAIN jps.agents

\* One iteration of the pedestrian loop of execute (lines 272-330) on a
\* vector in which several entries may point to the visited state: the
\* iteration works on the object, and every entry that points to it sees its
\* writes.  On a deleted state this is the iteration on freed memory that
\* has been left alone.
ExecuteVisitShared ==
    /\ pc = "loop"
    /\ stateIt <= Len(myPedestrianStates)
    /\ Visitable(myPedestrianStates[stateIt])
    /\ \E engine \in IF isWaitingToEnter(myPedestrianStates[stateIt])
                      THEN EngineAnswers(jps.agents) ELSE {Rejected},
          match \in IF isWaitingToEnter(myPedestrianStates[stateIt])
                     THEN {NoMatch}
                     ELSE Matches(host[myPedestrianStates[stateIt].person]),
          expectedNormal \in IF isWaitingToEnter(myPedestrianStates[stateIt])
                              THEN {TRUE} ELSE BOOLEAN :
         LET o == myPedestrianStates[stateIt].obj
             r == executeVisit([states |-> myPedestrianStates,
                                num |-> myNumActivePedestrians,
                                jps |-> jps, host |-> host],
                               stateIt, myExitTolerance, engine, match,
                               expectedNormal, NDEBUG)
             states == shareObject(r.states, o, r.object)
         IN  /\ myPedestrianStates' = states
             /\ pc' = IF r.aborted THEN "aborted" ELSE pc
             /\ myNumActivePedestrians' = r.num
             /\ jps' = r.jps
             /\ host' = r.host
             /\ stateIt' = r.stateIt
             /\ jpsCalls' = r.calls
             /\ ret' = Call("executeVisit", o, IF r.detected THEN 1 ELSE 0)
             /\ hist' = Restrict([hist EXCEPT
                                    ![o].detections = IF r.detected THEN @ + 1 ELSE @,
                                    ![o].accepted = IF r.attempted /\ engine.ok
                                                    THEN @ + 1 ELSE @],
                                 Tracked(states))
    /\ UNCHANGED <<NDEBUG, adapter, myJPSDeltaT, myExitTolerance, geoVars, handles, eventRegistered, heap>>

\* An iteration of the pedestrian loop that cannot go on.  On a deleted
\* state whose memory has been overwritten, the person read at line 101 or
\* 281 is no person.  On a state that another entry of the vector also
\* points to and whose last waypoint has been removed through that entry,
\* the queue read at line 319 is empty and the agent asked for at line 285
\* has been removed.
ExecuteVisitFreed ==
    /\ adapter = "alive"
    /\ pc = "loop"
    /\ stateIt <= Len(myPedestrianStates)
    /\ Deleted(stateIt) \/ ~Visitable(myPedestrianStates[stateIt])
    /\ processEnds("executeVisit", myPedestrianStates[stateIt].obj)

\* The handlers, and registerArrived and the setters called on their own
\* between them; no state is deleted.
NextMembers ==
    \/ Add
    \/ Remove
    \/ ExecuteBegin
    \/ ExecuteVisit
    \/ ExecuteEnd
    \/ ClearState
    \/ Destroy
    \/ RegisterArrived
    \/ SetPosition
    \/ SetPreviousPosition
    \/ SetAngle
    \/ SetLanePosition

\* The simulation of one pedestrian at one point with the member functions
\* called on their own between the handlers.
SpecMembers == InitRetry /\ [][NextMembers]_vars

\* The handlers and the deletion of states, with one of the setters, which
\* then also writes to deleted states.
NextDeleted ==
    \/ AddDefined
    \/ AddAfterDelete
    \/ Remove
    \/ ExecuteBegin
    \/ ExecuteVisitShared
    \/ ExecuteVisitFreed
    \/ ExecuteEnd
    \/ ClearState
    \/ Destroy
    \/ SetAngle
    \/ DeletePState
    \/ DeleteDeletedPState

\* The simulation of one pedestrian at one point in which tracked states
\* are deleted: a state can be created after a deletion, at the address of
\* the deleted state or elsewhere.
SpecDeleted == InitRetry /\ [][NextDeleted]_vars

\* State before the constructor runs.
InitCtor ==
    /\ NDEBUG \in BOOLEAN
    /\ adapter = "none"
    /\ myJPSDeltaT = 0
    /\ myExitTolerance = 0
    /\ myGEOSPedestrianNetwork = <<>>
    /\ maxAreaComponent = NULL
    /\ handles = NoHandles
    /\ eventRegistered = FALSE
    /\ myPedestrianStates = <<>>
    /\ myNumActivePedestrians = 0
    /\ heap = 0
    /\ jps \in {EmptyJps(g) : g \in PointRegions}
    /\ host = [p \in Persons |-> 0]
    /\ pc = "idle"
    /\ stateIt = 1
    /\ jpsCalls = <<>>
    /\ ret = Call("none", 0, NULL)
    /\ hist = <<>>

NextCtor == Construct \/ Destroy

SpecCtor == InitCtor /\ [][NextCtor]_vars

\* ------------------------------------------------- functions of the adapter
\* The computations below read nothing of the adapter's pedestrian state: each
\* action applies one of them to inputs of its domain and leaves the inputs
\* and the result in ret.
funVars == <<NDEBUG, adapter, myJPSDeltaT, myExitTolerance, geoVars, handles, eventRegistered,
             pedVars, jpsCalls>>

\* tryPedestrianInsertion computes the radius of the agent of a person.
AgentRadius ==
    /\ \E type \in VehicleTypes : ret' = Call("radius", type, radius(type))
    /\ UNCHANGED funVars

\* add computes the departure position of a new pedestrian.  The inputs that
\* the case does not read are fixed.
DepartureInputs ==
    LET zone == [stageIndex |-> 2, randomLocation |-> TRUE, tazConnector |-> TRUE,
                 shapeRegistered |-> TRUE]
    IN  [case : {zone}, shape : TazShapes, samples : SeqsUpTo(BoxPoints, MaxSamples)]
        \cup [case : DepartureCases \ {zone}, shape : {BoxPoints}, samples : {<<>>}]

DeparturePosition ==
    /\ \E in \in DepartureInputs :
         /\ ret' = Call("departurePosition", in,
                        departurePosition(in.case, in.shape, in.samples, <<2, 0>>))
    /\ UNCHANGED funVars

\* add builds the journey of a new pedestrian: the operator add is applied to
\* an adapter that tracks nobody, with an engine that has registered stages
\* before or has not, and no engine call fails.  The plans are one stage longer
\* than those of the simulation, so that a stage of another type can stand
\* between two walks.
JourneyPlans ==
    {pl \in (SeqsUpTo(Stages, MaxStages + 1) \ {<<>>}) : pl[1].type = "WALKING"}

JourneyInputs ==
    [plan : JourneyPlans, engine : EngineAnswers(<<>>), stages : {0, 2}]

AddJourney ==
    /\ \E in \in JourneyInputs :
         ret' = Call("addJourney", in,
                     add([Adapter EXCEPT !.jps.stages = in.stages], 1, in.plan,
                         CHOOSE d \in Departures(jps.region) : TRUE, NoFailure, in.engine))
    /\ UNCHANGED funVars

\* The inner loop body of buildPedestrianNetwork is applied to a pair of edges.
ConnectPair ==
    /\ \E pr \in EdgePairs :
         ret' = Call("connectPair", pr,
                     connectPair(pr, createGeometryFromShape([simple |-> pr.simple, id |-> 2])))
    /\ UNCHANGED funVars

\* The loop over the additional polygons is applied to up to MaxPolygons of them.
CollectAdditional ==
    /\ \E polygons \in SeqsUpTo(AdditionalPolygons, MaxPolygons) :
         ret' = Call("additionalAreas", polygons, additionalAreas(polygons, 1, <<>>, <<>>))
    /\ UNCHANGED funVars

\* initialize prepares the selected component for the engine and for display.
PreparePolygon ==
    /\ \E polygon \in Polygons :
         ret' = Call("preparePolygon", polygon,
                     [jps |-> preparePolygonForJPS(polygon),
                      drawing |-> preparePolygonForDrawing(polygon, 1)])
    /\ UNCHANGED funVars

InitFun == InitCtor

NextFun ==
    \/ AgentRadius
    \/ DeparturePosition
    \/ AddJourney
    \/ ConnectPair
    \/ CollectAdditional
    \/ PreparePolygon

SpecFun == InitFun /\ [][NextFun]_vars

\* ------------------------------------------------------------------ claims
HasCall(calls, name) == \E n \in 1..Len(calls) : calls[n][1] = name
CallsOf(calls, name) == {n \in 1..Len(calls) : calls[n][1] = name}
StateOf(states, obj) == states[CHOOSE i \in 1..Len(states) : states[i].obj = obj]

\* C1: when add has returned a state object for a pedestrian and add is
\* called again for that pedestrian, the second call returns the same object,
\* leaves the tracked set and the active counter as they are, and makes no
\* call to the engine (no waypoint, transition or journey is registered).
C1_AddTwiceSameState ==
    [][(ret.op = "add" /\ ret.value # NULL /\ ret'.op = "add" /\ ret'.arg = ret.arg)
        => /\ ret'.value = ret.value
           /\ myPedestrianStates' = myPedestrianStates
           /\ myNumActivePedestrians' = myNumActivePedestrians
           /\ jps' = jps
           /\ jpsCalls' = <<>>]_vars

\* add has just returned the second of two tracked states from its lookup.
C1_Witness ==
    /\ ret.op = "add" /\ ret.value # NULL /\ jpsCalls = <<>>
    /\ Len(myPedestrianStates) = 2
    /\ myPedestrianStates[2].obj = ret.value
    /\ myPedestrianStates[2].person = ret.arg

\* C2: a state that add created with k waypoints is erased by execute exactly
\* in the visit that makes its k-th near-waypoint detection: a tracked state
\* has fewer than k detections, a visit erases the state if and only if it is
\* its k-th detection, and the erasing visit lowers the active counter by 1
\* (any other visit leaves the counter alone).
C2_RemovedAtKthDetection ==
    /\ [](\A i \in 1..Len(myPedestrianStates) :
             hist[myPedestrianStates[i].obj].detections
                 < hist[myPedestrianStates[i].obj].k)
    /\ [][ret'.op = "executeVisit"
          => LET o == ret'.arg
                 erased == o \notin Tracked(myPedestrianStates')
             IN  /\ erased <=> (ret'.value = 1 /\ hist[o].detections + 1 = hist[o].k)
                 /\ erased => /\ myNumActivePedestrians' = myNumActivePedestrians - 1
                              /\ Len(myPedestrianStates') = Len(myPedestrianStates) - 1
                 /\ ~erased => /\ myNumActivePedestrians' = myNumActivePedestrians
                               /\ Len(myPedestrianStates') = Len(myPedestrianStates)]_vars

\* A visit has just erased a state at a detection, after an earlier visit
\* popped the first of its two waypoints.
C2_Witness ==
    /\ ret.op = "executeVisit" /\ ret.value = 1
    /\ ret.arg \notin Tracked(myPedestrianStates)
    /\ HasCall(jpsCalls, "JPS_Simulation_MarkAgentForRemoval")
    /\ myNumActivePedestrians = 0
    /\ jps.descriptions = 1 /\ jps.stages = 2 /\ jps.journeys = 1

\* C3: a state for which the engine has rejected every insertion attempt (the
\* one of add and each retry of execute) is still waiting to enter and has
\* agent id 0; the active counter is raised by 1 when add creates the state
\* and is not changed by a retry.
C3_RejectedStaysWaiting ==
    /\ [](\A i \in 1..Len(myPedestrianStates) :
             hist[myPedestrianStates[i].obj].accepted = 0
                 => /\ myPedestrianStates[i].waiting
                    /\ myPedestrianStates[i].agentId = 0)
    /\ [][/\ (ret'.op = "executeVisit" /\ myPedestrianStates[stateIt].waiting)
             => myNumActivePedestrians' = myNumActivePedestrians
          /\ (ret'.op = "add" /\ heap' # heap)
             => myNumActivePedestrians' = myNumActivePedestrians + 1]_vars

\* A retry of execute has just been rejected for a state that add could not
\* insert either, while another pedestrian is tracked too.
C3_Witness ==
    /\ ret.op = "executeVisit"
    /\ HasCall(jpsCalls, "WRITE_WARNING adding person")
    /\ ret.arg \in Tracked(myPedestrianStates)
    /\ hist[ret.arg].accepted = 0
    /\ StateOf(myPedestrianStates, ret.arg).waiting
    /\ myNumActivePedestrians = 2

\* C4: when the adapter is destroyed, the journey description of every
\* tracked state is freed exactly once, before the simulation handle (the
\* first engine handle) is freed.
C4_StatesReleasedBeforeHandles ==
    [][ret'.op = "dtor"
        => \A i \in 1..Len(myPedestrianStates) :
              LET frees == {n \in 1..Len(jpsCalls') :
                              jpsCalls'[n] = <<"JPS_JourneyDescription_Free",
                                               myPedestrianStates[i].journey>>}
              IN  /\ Cardinality(frees) = 1
                  /\ \A n \in frees, m \in CallsOf(jpsCalls', "JPS_Simulation_Free") :
                        n < m]_vars

\* C5: a visit of execute to an inserted state that gets to the test of line
\* 319 pops a waypoint (or erases the state) if and only if the agent's
\* squared distance to the next waypoint is below the square of twice the
\* exit tolerance; at exactly twice the tolerance the state stays tracked
\* with its queue unchanged.
C5_StrictlyWithinTwiceTolerance ==
    [][(/\ ret'.op = "executeVisit"
        /\ ~myPedestrianStates[stateIt].waiting
        /\ pc' # "aborted")
        => LET st == myPedestrianStates[stateIt]
               p == jps.agents[st.agentId].pos
               w == Head(st.waypoints)
               d2 == (p[1] - w[1]) * (p[1] - w[1]) + (p[2] - w[2]) * (p[2] - w[2])
               limit == 4 * myExitTolerance * myExitTolerance
               kept == /\ st.obj \in Tracked(myPedestrianStates')
                       /\ StateOf(myPedestrianStates', st.obj).waypoints = st.waypoints
           IN  kept <=> ~(d2 < limit)]_vars

\* A visit has just left alone a state whose agent is exactly twice the
\* tolerance away from its next waypoint.
C5_Witness ==
    /\ ret.op = "executeVisit" /\ ret.value = 0
    /\ ret.arg \in Tracked(myPedestrianStates)
    /\ LET st == StateOf(myPedestrianStates, ret.arg)
       IN  /\ ~st.waiting
           /\ distanceTo2DSq(st.pos, Head(st.waypoints))
                = 4 * myExitTolerance * myExitTolerance

\* C6: a tracked state that is waiting to enter has agent id 0, and whenever
\* the agent id of a state changes the state is not waiting afterwards.
C6_WaitingHasPlaceholderId ==
    /\ [](\A i \in 1..Len(myPedestrianStates) :
             myPedestrianStates[i].waiting => myPedestrianStates[i].agentId = 0)
    /\ [][\A i \in 1..Len(myPedestrianStates), j \in 1..Len(myPedestrianStates') :
             (/\ myPedestrianStates[i].obj = myPedestrianStates'[j].obj
              /\ myPedestrianStates[i].agentId # myPedestrianStates'[j].agentId)
                => ~myPedestrianStates'[j].waiting]_vars

\* A retry of execute has just stored an agent id, while another state is
\* still waiting.
C6_Witness ==
    /\ ret.op = "executeVisit"
    /\ HasCall(jpsCalls, "JPS_Simulation_AddCollisionFreeSpeedModelAgent")
    /\ ret.arg \in Tracked(myPedestrianStates)
    /\ StateOf(myPedestrianStates, ret.arg).agentId # 0
    /\ ~StateOf(myPedestrianStates, ret.arg).waiting
    /\ \E i \in 1..Len(myPedestrianStates) : myPedestrianStates[i].waiting

\* C7: every tracked state has a non-empty waypoint queue, in every state of
\* the run (so at the start and the end of every execute call); the visit
\* that pops the last waypoint of a state erases the state and lowers the
\* active counter in the same step.
C7_QueueNeverEmpty ==
    /\ [](\A i \in 1..Len(myPedestrianStates) :
             Len(myPedestrianStates[i].waypoints) >= 1)
    /\ [][ret'.op = "executeVisit"
          => LET st == myPedestrianStates[stateIt]
                 emptied == /\ Len(st.waypoints) = 1
                            /\ ~st.waiting
                            /\ pc' # "aborted"
                            /\ nearWaypoint(jps.agents[st.agentId].pos,
                                            Head(st.waypoints), myExitTolerance)
             IN  /\ emptied <=> st.obj \notin Tracked(myPedestrianStates')
                 /\ emptied => myNumActivePedestrians' = myNumActivePedestrians - 1]_vars

\* A visit has just popped the first of two waypoints: the state is still
\* tracked, with one waypoint left.
C7_Witness ==
    /\ ret.op = "executeVisit" /\ ret.value = 1
    /\ ret.arg \in Tracked(myPedestrianStates)
    /\ hist[ret.arg].k = 2
    /\ Len(StateOf(myPedestrianStates, ret.arg).waypoints) = 1

\* C8: an add call in which the engine reports an error for a waypoint, a
\* transition or the journey registration returns null, leaves the tracked
\* set and the active counter unchanged and attempts no agent insertion.
AddWarnings == {"WRITE_WARNING adding waypoint", "WRITE_WARNING creating fixed transition",
                "WRITE_WARNING setting transition", "WRITE_WARNING adding journey"}
C8_FailedAddLeavesNoTrace ==
    [][(ret'.op = "add" /\ \E w \in AddWarnings : HasCall(jpsCalls', w))
        => /\ ret'.value = NULL
           /\ myPedestrianStates' = myPedestrianStates
           /\ myNumActivePedestrians' = myNumActivePedestrians
           /\ ~HasCall(jpsCalls', "JPS_Simulation_AddCollisionFreeSpeedModelAgent")]_vars

\* add has just failed at the transition to its second waypoint, while one
\* pedestrian is tracked.
C8_Witness ==
    /\ ret.op = "add" /\ ret.value = NULL
    /\ HasCall(jpsCalls, "WRITE_WARNING setting transition")
    /\ Len(myPedestrianStates) = 1
    /\ myNumActivePedestrians = 1

\* C9: after a construction that got a geometry of N >= 1 components, exactly
\* one component was handed to the engine, its area is at least the area of
\* every component, and a warning was written if and only if N > 1.
C9_LargestComponentChosen ==
    (ret.op = "ctor" /\ Len(myGEOSPedestrianNetwork) >= 1)
        => LET areas == myGEOSPedestrianNetwork
               handed == CallsOf(jpsCalls, "JPS_GeometryBuilder_AddAccessibleArea")
           IN  /\ Cardinality(handed) = 1
               /\ \A n \in handed :
                     /\ jpsCalls[n][2] \in 1..Len(areas)
                     /\ \A c \in 1..Len(areas) : areas[jpsCalls[n][2]] >= areas[c]
               /\ HasCall(jpsCalls, "WRITE_WARNING components") <=> Len(areas) > 1

\* A construction has chosen the second of three components, the first
\* being smaller and the third not larger.
C9_Witness ==
    /\ ret.op = "ctor" /\ adapter = "alive"
    /\ Len(myGEOSPedestrianNetwork) = 3
    /\ maxAreaComponent = 2
    /\ HasCall(jpsCalls, "WRITE_WARNING components")

\* C10: a construction whose merged geometry is not simple fails: no engine
\* handle exists afterwards, no creation call was made and no step callback
\* was registered.
C10_NonSimpleAbortsConstruction ==
    (ret.op = "ctor" /\ ret.arg = 0)
        => /\ adapter = "failed"
           /\ handles = NoHandles
           /\ ~eventRegistered
           /\ \A n \in 1..Len(jpsCalls) : jpsCalls[n][1] = "initGEOS"

\* The constructor has just thrown on a geometry that is not simple.
C10_Witness ==
    /\ ret.op = "ctor" /\ ret.arg = 0
    /\ adapter = "failed"
    /\ jpsCalls = <<<<"initGEOS", 0>>>>


\* The engine's creation calls of initialize, in the order of the code, each
\* with the ProcessError thrown when it returns null.
CreationCalls ==
    <<[call |-> "JPS_GeometryBuilder_Build",
       error |-> "throw ProcessError creating the geometry"],
      [call |-> "JPS_CollisionFreeSpeedModelBuilder_Build",
       error |-> "throw ProcessError creating the pedestrian model"],
      [call |-> "JPS_Simulation_Create",
       error |-> "throw ProcessError creating the simulation"]>>

\* C11: a construction on a simple geometry makes the creation calls in the
\* order geometry, operational model, simulation, each after the one before
\* returned a handle; the first call that returns null is followed by the
\* throw of a ProcessError that carries the message read from the engine, and
\* by no other call; if none returns null all three are made.
C11_CreationStopsAtFirstNull ==
    (ret.op = "ctor" /\ ret.arg = 1)
        => LET made == [k \in 1..3 |-> CallsOf(jpsCalls, CreationCalls[k].call)]
           IN  /\ \A k \in 1..3 : Cardinality(made[k]) <= 1
               /\ \A k \in 2..3 : \A n \in made[k] :
                     \E m \in made[k - 1] : m < n /\ jpsCalls[m][2] # 0
               /\ made[1] # {}
               /\ \A k \in 1..3 : \A n \in made[k] :
                     IF jpsCalls[n][2] = 0
                     THEN /\ adapter = "failed"
                          /\ Len(jpsCalls) = n + 3
                          /\ jpsCalls[n + 1][1] = "JPS_ErrorMessage_GetMessage"
                          /\ jpsCalls[n + 1][2] \in EngineMessages
                          /\ jpsCalls[n + 3] = <<CreationCalls[k].error, jpsCalls[n + 1][2]>>
                          /\ \A j \in (k + 1)..3 : made[j] = {}
                     ELSE k < 3 => made[k + 1] # {}
               /\ adapter = "alive" <=> \E n \in made[3] : jpsCalls[n][2] # 0

\* A construction has failed at the operational model: the geometry was built,
\* the model was not, and the simulation was never asked for.
C11_Witness ==
    /\ ret.op = "ctor" /\ adapter = "failed"
    /\ \E n \in CallsOf(jpsCalls, "JPS_GeometryBuilder_Build") : jpsCalls[n][2] = 1
    /\ \E n \in CallsOf(jpsCalls, "JPS_CollisionFreeSpeedModelBuilder_Build") :
          jpsCalls[n][2] = 0
    /\ ~HasCall(jpsCalls, "JPS_Simulation_Create")
    /\ jpsCalls[Len(jpsCalls)] = <<"throw ProcessError creating the pedestrian model", 2>>


\* The release calls of the destructor for the engine handles, in the order
\* of the code.
ReleaseCalls ==
    <<"JPS_Simulation_Free", "JPS_OperationalModel_Free",
      "JPS_CollisionFreeSpeedModelBuilder_Free", "JPS_Geometry_Free",
      "JPS_GeometryBuilder_Free">>

\* C12: the destructor releases the simulation, the operational model, the
\* model builder, the geometry and the geometry builder, each exactly once
\* and in that order, and shuts the geometry library down once, after all of
\* them.
C12_HandlesReleasedInOrder ==
    ret.op = "dtor"
        => /\ \A k \in 1..Len(ReleaseCalls) :
                 Cardinality(CallsOf(jpsCalls, ReleaseCalls[k])) = 1
           /\ \A k \in 1..(Len(ReleaseCalls) - 1) :
                 \A m \in CallsOf(jpsCalls, ReleaseCalls[k]),
                    n \in CallsOf(jpsCalls, ReleaseCalls[k + 1]) : m < n
           /\ Cardinality(CallsOf(jpsCalls, "finishGEOS")) = 1
           /\ \A k \in 1..Len(ReleaseCalls) :
                 \A m \in CallsOf(jpsCalls, ReleaseCalls[k]),
                    n \in CallsOf(jpsCalls, "finishGEOS") : m < n
           /\ \A h \in DOMAIN handles : handles[h] = "freed"

\* An adapter that had created two pedestrian states has been destroyed.
C12_Witness ==
    /\ ret.op = "dtor" /\ adapter = "destroyed"
    /\ heap = 2
    /\ HasCall(jpsCalls, "JPS_GeometryBuilder_Free")


\* C13: the first part of an execute call makes exactly n engine iterations,
\* numbered 0..n-1, where n is the integer part of DELTA_T / myJPSDeltaT,
\* whether or not iterations report errors; it leaves every pedestrian state
\* as it was and hands over to the pedestrian loop, which starts at the first
\* state; the visits of the loop and the end of the call make no iteration.
C13_IterationsBeforeUpdate ==
    [][/\ ret'.op = "executeBegin"
           => LET its == CallsOf(jpsCalls', "JPS_Simulation_Iterate")
                  n == Cardinality(its)
              IN  /\ n * myJPSDeltaT <= DELTA_T
                  /\ DELTA_T < (n + 1) * myJPSDeltaT
                  /\ \A i \in 0..(n - 1) : \E m \in its : jpsCalls'[m][2] = i
                  /\ \A m \in CallsOf(jpsCalls', "WRITE_ERROR iteration") :
                        jpsCalls'[m - 1] = <<"JPS_Simulation_Iterate", jpsCalls'[m][2]>>
                  /\ myPedestrianStates' = myPedestrianStates
                  /\ myNumActivePedestrians' = myNumActivePedestrians
                  /\ pc' = "loop" /\ stateIt' = 1
       /\ ret'.op \in {"executeVisit", "executeEnd"}
           => ~HasCall(jpsCalls', "JPS_Simulation_Iterate")
       /\ (pc = "idle" /\ pc' = "loop") => ret'.op = "executeBegin"]_vars

\* An execute call on a tracked pedestrian has made its two iterations with
\* an engine step of 2, the first of them reporting an error.
C13_Witness ==
    /\ ret.op = "executeBegin" /\ pc = "loop"
    /\ myJPSDeltaT = 2
    /\ Len(myPedestrianStates) >= 1
    /\ jpsCalls[2] = <<"WRITE_ERROR iteration", 0>>
    /\ \E m \in 1..Len(jpsCalls) : jpsCalls[m] = <<"JPS_Simulation_Iterate", 1>>


\* C14: a visit of execute to a state that is waiting to enter makes exactly
\* one insertion attempt, keeps the state at its place in the tracked
\* sequence with its position, previous position, angle, lane position and
\* waypoint queue as they were, whether or not the engine accepts the agent,
\* leaves every other state, the counter and the host's stages alone, and
\* goes on with the next state.
C14_WaitingVisitFrame ==
    [][(ret'.op = "executeVisit" /\ isWaitingToEnter(myPedestrianStates[stateIt]))
        => LET before == myPedestrianStates[stateIt]
               after == myPedestrianStates'[stateIt]
           IN  /\ Cardinality(CallsOf(jpsCalls',
                      "JPS_Simulation_AddCollisionFreeSpeedModelAgent")) = 1
               /\ Len(myPedestrianStates') = Len(myPedestrianStates)
               /\ \A j \in 1..Len(myPedestrianStates) :
                     j # stateIt => myPedestrianStates'[j] = myPedestrianStates[j]
               /\ after.obj = before.obj
               /\ after.pos = before.pos
               /\ after.prevPos = before.prevPos
               /\ after.angle = before.angle
               /\ after.lanePos = before.lanePos
               /\ after.waypoints = before.waypoints
               /\ myNumActivePedestrians' = myNumActivePedestrians
               /\ host' = host
               /\ stateIt' = stateIt + 1]_vars

\* A visit of execute has inserted the second tracked pedestrian, which add
\* had left waiting.
C14_Witness ==
    /\ ret.op = "executeVisit" /\ ret.value = 0
    /\ stateIt = 3
    /\ Len(myPedestrianStates) = 2
    /\ myPedestrianStates[2].obj = ret.arg
    /\ ~myPedestrianStates[2].waiting
    /\ myPedestrianStates[2].agentId # 0
    /\ jpsCalls = <<<<"JPS_Simulation_AddCollisionFreeSpeedModelAgent",
                     myPedestrianStates[2].agentId>>>>


\* C15: the radius handed to the engine is half the width if only the width
\* was set, half the length if only the length was set, a quarter of length
\* plus width if both were set, and 0.3 if neither was set.
C15_RadiusFromTypeParameters ==
    ret.op = "radius"
        => LET type == ret.arg
               l == type.length
               w == type.width
               r == ret.value
           IN  /\ (type.widthSet /\ ~type.lengthSet) => 2 * r[1] * w[2] = w[1] * r[2]
               /\ (type.lengthSet /\ ~type.widthSet) => 2 * r[1] * l[2] = l[1] * r[2]
               /\ (type.lengthSet /\ type.widthSet)
                    => 4 * r[1] * l[2] * w[2] = (l[1] * w[2] + w[1] * l[2]) * r[2]
               /\ (~type.lengthSet /\ ~type.widthSet) => 10 * r[1] = 3 * r[2]

\* The radius of a person with only the length set, length 0.3 and the
\* default width 0.1, has been computed as 0.15.
C15_Witness ==
    /\ ret.op = "radius"
    /\ ret.arg = [lengthSet |-> TRUE, widthSet |-> FALSE, length |-> <<3, 10>>,
                  width |-> <<1, 10>>]
    /\ EqualQ(ret.value, <<15, 100>>)


\* C16: when add takes the departure from a zone whose shape is registered
\* and its sampling loop has ended, the departure position is one of the
\* points drawn and lies within the zone's polygon, whatever the random
\* generator has drawn from the bounding box.
C16_DepartureWithinZone ==
    (/\ ret.op = "departurePosition"
     /\ ret.arg.case.stageIndex = 2
     /\ ret.arg.case.randomLocation
     /\ ret.arg.case.tazConnector
     /\ ret.arg.case.shapeRegistered
     /\ ret.value.returned)
        => /\ ret.value.fromZone
           /\ ret.value.pos \in Range(ret.arg.samples)
           /\ around(ret.arg.shape, ret.value.pos)

\* A departure from a zone has been drawn at the second try, the first draw
\* having fallen outside the polygon.
C16_Witness ==
    /\ ret.op = "departurePosition"
    /\ ret.arg.case.shapeRegistered /\ ret.arg.case.stageIndex = 2
    /\ ret.arg.case.randomLocation /\ ret.arg.case.tazConnector
    /\ Len(ret.arg.samples) = 2
    /\ ~around(ret.arg.shape, ret.arg.samples[1])
    /\ ret.value.returned
    /\ ret.value.pos = ret.arg.samples[2]


\* The n-th smallest member of a set of indices.
Nth(S, n) == CHOOSE x \in S : Cardinality({y \in S : y < x}) = n - 1

\* C17: for a plan whose current stage is followed by m consecutive walking or
\* trip stages, an add in which no engine call fails registers m+1 waypoints,
\* the arrival points of the stages 1..m+1 in that order, adds them to the
\* journey in that order, creates for each waypoint but the first a fixed
\* transition to it and sets it for the waypoint before, gives the new state
\* the first waypoint's id as its starting stage and gives it the m+1 points
\* in plan order as its waypoint queue.
C17_WaypointsInPlanOrder ==
    ret.op = "addJourney"
        => LET plan == ret.arg.plan
               calls == ret.value.calls
               m == CHOOSE k \in 0..(Len(plan) - 1) :
                       /\ \A j \in 2..(k + 1) : plan[j].type \in {"WALKING", "TRIP"}
                       /\ k + 1 < Len(plan) => plan[k + 2].type \notin {"WALKING", "TRIP"}
               points == [j \in 1..(m + 1) |-> plan[j].arrival]
               registered == CallsOf(calls, "JPS_Simulation_AddStageWaypoint")
               staged == CallsOf(calls, "JPS_JourneyDescription_AddStage")
               created == CallsOf(calls, "JPS_Transition_CreateFixedTransition")
               set == CallsOf(calls, "JPS_JourneyDescription_SetTransitionForStage")
               id == [j \in 1..(m + 1) |-> calls[Nth(registered, j)][2]]
               state == ret.value.states[Len(ret.value.states)]
           IN  /\ Cardinality(registered) = m + 1
               /\ \A j \in 1..(m + 1) : calls[Nth(registered, j)][3] = points[j]
               /\ \A i, j \in 1..(m + 1) : i # j => id[i] # id[j]
               /\ Cardinality(staged) = m + 1
               /\ \A j \in 1..(m + 1) :
                     /\ calls[Nth(staged, j)][2] = id[j]
                     /\ Nth(registered, j) < Nth(staged, j)
               /\ Cardinality(created) = m /\ Cardinality(set) = m
               /\ \A j \in 1..m :
                     /\ calls[Nth(created, j)][2] = id[j + 1]
                     /\ calls[Nth(set, j)][2] = id[j]
                     /\ Nth(created, j) < Nth(set, j)
                     /\ Nth(set, j) < Nth(staged, j + 1)
               /\ ret.value.ret = state.obj
               /\ state.stageId = id[1]
               /\ state.waypoints = points

\* add has built a journey of two waypoints for a plan of a walk, a trip and
\* a ride, in an engine that had two stages before.
C17_Witness ==
    /\ ret.op = "addJourney"
    /\ ret.arg.stages = 2
    /\ Len(ret.arg.plan) = 3
    /\ ret.arg.plan[2].type = "TRIP"
    /\ ret.arg.plan[3].type = "DRIVING"
    /\ ret.arg.plan[1].arrival # ret.arg.plan[2].arrival
    /\ ret.value.states[1].stageId = 3
    /\ Len(ret.value.states[1].waypoints) = 2


\* The connectors among pushed geometries.
Connectors(pushed) == {i \in 1..Len(pushed) : pushed[i].kind \in {"line", "hull"}}

\* C18: for a pair of a normal edge and a crossing, no connector is
\* synthesized when none of the walking area's relevant neighbour edges (its
\* predecessors if the first edge is the crossing, its successors otherwise)
\* is normal; a pair that is neither normal/normal, normal/crossing nor
\* crossing/crossing never yields a connector.
C18_MixedPairSkipsWithoutNormalNeighbour ==
    ret.op = "connectPair"
        => LET edge == ret.arg.edge
               nextEdge == ret.arg.nextEdge
               mixed == \/ edge.function = "normal" /\ nextEdge.function = "crossing"
                        \/ edge.function = "crossing" /\ nextEdge.function = "normal"
               relevantNormal == IF edge.function = "crossing"
                                 THEN ret.arg.predecessorNormal
                                 ELSE ret.arg.successorNormal
               enumerated == {edge.function, nextEdge.function} \subseteq {"normal", "crossing"}
           IN  /\ mixed /\ ~relevantNormal => Connectors(ret.value) = {}
               /\ ~enumerated => Connectors(ret.value) = {}

\* A geometry list holds the null pointer.
HoldsNull(geometries) == \E i \in 1..Len(geometries) : geometries[i] = NullGeometry

\* C19: the null result of createGeometryFromShape is never appended to the
\* walkable areas or to the obstacles, neither for the walking-area shape of
\* a pair of edges nor for a tagged walkable area, zone or obstacle.
C19_NullGeometrySkipped ==
    /\ ret.op = "connectPair" => ~HoldsNull(ret.value)
    /\ ret.op = "additionalAreas"
          => /\ ~HoldsNull(ret.value.walkableAreas)
             /\ ~HoldsNull(ret.value.additionalObstacles)


\* The interior rings whose area is strictly above 0.01, in the polygon's order.
RECURSIVE LargeRings(_)
LargeRings(interior) ==
    IF interior = <<>> THEN <<>>
    ELSE (IF interior[1].area[1] * 100 > interior[1].area[2] THEN <<interior[1].ring>> ELSE <<>>)
            \o LargeRings(Tail(interior))

\* C20: when the selected component is prepared, the exterior ring is
\* registered as the one accessible area, and if the interior rings can be
\* enumerated, the excluded areas registered with the engine are exactly the
\* interior rings of area strictly above 0.01, in the polygon's order, and the
\* holes of the display polygon are the same rings in the same order.
C20_HolesAboveMinimumArea ==
    ret.op = "preparePolygon"
        => LET polygon == ret.arg
               calls == ret.value.jps
               large == LargeRings(polygon.interior)
               accessible == CallsOf(calls, "JPS_GeometryBuilder_AddAccessibleArea")
               excluded == CallsOf(calls, "JPS_GeometryBuilder_ExcludeFromAccessibleArea")
           IN  /\ accessible = {1}
               /\ calls[1][2] \o <<polygon.exterior[1]>> = polygon.exterior
               /\ ~polygon.exception
                     => /\ excluded = 2..(Len(large) + 1)
                        /\ Len(calls) = Len(large) + 1
                        /\ \A k \in 1..Len(large) :
                              calls[k + 1][2] \o <<large[k][1]>> = large[k]
                        /\ Len(ret.value.drawing) = 1
                        /\ ret.value.drawing[1].shape = polygon.exterior
                        /\ ret.value.drawing[1].holes = large

\* A component has been prepared whose first interior ring has exactly the
\* minimum area and whose second, different ring is larger: only the second
\* is excluded and displayed.
C20_Witness ==
    /\ ret.op = "preparePolygon"
    /\ ~ret.arg.exception
    /\ Len(ret.arg.interior) = 2
    /\ ret.arg.interior[1].area = <<2, 200>>
    /\ ret.arg.interior[2].area = <<3, 200>>
    /\ ret.arg.interior[1].ring # ret.arg.interior[2].ring
    /\ Len(ret.value.jps) = 2
    /\ ret.value.drawing[1].holes = <<ret.arg.interior[2].ring>>


\* C21: when a visit of execute advances the stage because map matching found
\* a normal lane other than the expected one, the current edge of the host
\* stage after that advance is the edge of the matched lane, also when that
\* edge lies more than one route edge ahead.  (Visits that go on to drain the
\* stage at a waypoint are left out: they move the stage further.)
C21_AdvanceReachesMatchedEdge ==
    [][(/\ ret'.op = "executeVisit"
        /\ HasCall(jpsCalls', "moveToNextEdge")
        /\ ~HasCall(jpsCalls', "moveToNextEdge until arrived"))
        => host'[StateOf(myPedestrianStates, ret'.arg).person] = jpsCalls'[1][3]]_vars

\* C22: no advance of the stage made because the matched lane differs from
\* the expected lane reports the arrival of the pedestrian.
C22_AdvanceNeverArrives ==
    [][ret'.op = "executeVisit"
        => \A n \in CallsOf(jpsCalls', "moveToNextEdge") : jpsCalls'[n][2] = 0]_vars


\* C23: a visit of execute to an inserted state for which map matching finds
\* nothing makes no stage advance for a lane difference and leaves the lane
\* offset alone, and the host's route step too unless the pedestrian is at
\* its waypoint; the position, the previous position and the heading are
\* updated from the agent, and the near-waypoint test is made on the new
\* position.
C23_FailedMatchSkipsRefinement ==
    [][(/\ ret'.op = "executeVisit"
        /\ jpsCalls' # <<>>
        /\ jpsCalls'[1] = <<"moveToXYMap_matchingRoutePosition", 0, 0>>)
        => LET old == StateOf(myPedestrianStates, ret'.arg)
               agent == jps.agents[old.agentId]
               d == distanceTo2DSq(agent.pos, Head(old.waypoints))
               near == d < 4 * myExitTolerance * myExitTolerance
           IN  /\ ~HasCall(jpsCalls', "moveToNextEdge")
               /\ (ret'.value = 1) <=> near
               /\ ~near => host' = host
               /\ ret'.arg \in Tracked(myPedestrianStates')
                     => LET new == StateOf(myPedestrianStates', ret'.arg)
                        IN  /\ new.lanePos = old.lanePos
                            /\ new.pos = agent.pos
                            /\ new.prevPos = old.pos
                            /\ new.angle = atan2(agent.orientation)]_vars

\* A visit without a match has moved the state to a new position with another
\* abscissa and kept the lane offset of the position before.
C23_Witness ==
    /\ ret.op = "executeVisit"
    /\ jpsCalls # <<>>
    /\ jpsCalls[1] = <<"moveToXYMap_matchingRoutePosition", 0, 0>>
    /\ ret.arg \in Tracked(myPedestrianStates)
    /\ LET state == StateOf(myPedestrianStates, ret.arg)
       IN  /\ state.pos # state.prevPos
           /\ state.lanePos = state.prevPos[1]
           /\ state.lanePos # state.pos[1]


\* C24: within one execute call every tracked state is visited once, in
\* insertion order: of two successive visits of the pedestrian loop the
\* second is to a state inserted after the state of the first, so that a
\* state whose waypoint was popped is not processed again before the next
\* step.
C24_EachStateVisitedOnce ==
    [][(ret.op = "executeVisit" /\ ret'.op = "executeVisit") => ret'.arg > ret.arg]_vars


\* C25: an add call that has created a journey description and returns null
\* has freed that description exactly once, after creating it, and has freed
\* every transition it created.
C25_AbortedAddReleasesJourney ==
    [][(/\ ret'.op = "add"
        /\ ret'.value = NULL
        /\ HasCall(jpsCalls', "JPS_JourneyDescription_Create"))
        => LET created == CallsOf(jpsCalls', "JPS_JourneyDescription_Create")
               freed == CallsOf(jpsCalls', "JPS_JourneyDescription_Free")
               transitions == {n \in CallsOf(jpsCalls', "JPS_Transition_CreateFixedTransition") :
                                 jpsCalls'[n][2] # 0}
           IN  /\ Cardinality(freed) = 1
               /\ \A c \in created, f \in freed :
                     c < f /\ jpsCalls'[f][2] = jpsCalls'[c][2]
               /\ Cardinality(CallsOf(jpsCalls', "JPS_Transition_Free"))
                     = Cardinality(transitions)]_vars


\* Person p is tracked and waits to enter; person p is tracked and inserted.
WaitingToEnter(p) ==
    \E i \in 1..Len(myPedestrianStates) :
        myPedestrianStates[i].person = p /\ myPedestrianStates[i].waiting
Inserted(p) ==
    \E i \in 1..Len(myPedestrianStates) :
        /\ myPedestrianStates[i].person = p
        /\ ~myPedestrianStates[i].waiting
        /\ myPedestrianStates[i].agentId \in DOMAIN jps.agents

\* C26: if execute keeps being called and the engine accepts the agent at
\* some retry, a tracked pedestrian that waits to enter is eventually
\* inserted, with the agent id stored and the waiting flag cleared, unless the
\* tracked set is cleared before.
C26_WaitingEventuallyInserted ==
    \A p \in Persons :
        WaitingToEnter(p) ~> (Inserted(p) \/ myPedestrianStates = <<>>)

\* A visit of execute has inserted a pedestrian that add had left waiting:
\* the engine has accepted its agent once, in that visit.
C26_Witness ==
    /\ ret.op = "executeVisit"
    /\ jpsCalls # <<>>
    /\ jpsCalls[1][1] = "JPS_Simulation_AddCollisionFreeSpeedModelAgent"
    /\ jpsCalls[1][2] # 0
    /\ Inserted(StateOf(myPedestrianStates, ret.arg).person)
    /\ hist[ret.arg].accepted = 1


\* C27: at every point of a run of add, execute, remove and clearState calls
\* the active-pedestrian counter equals the number of tracked states, and so
\* is not negative; clearState leaves both at zero and remove changes
\* neither.
C27_CounterEqualsTrackedStates ==
    [][/\ myNumActivePedestrians' = Len(myPedestrianStates')
       /\ myNumActivePedestrians' >= 0
       /\ ret'.op = "clearState"
             => myNumActivePedestrians' = 0 /\ myPedestrianStates' = <<>>
       /\ ret'.op = "remove"
             => /\ myNumActivePedestrians' = myNumActivePedestrians
                /\ myPedestrianStates' = myPedestrianStates]_vars

\* execute has erased the first of two tracked pedestrians: one state is
\* tracked and the counter is one.
C27_Witness ==
    /\ ret.op = "executeVisit" /\ ret.value = 1
    /\ ret.arg \notin Tracked(myPedestrianStates)
    /\ heap = 2
    /\ Len(myPedestrianStates) = 1
    /\ myPedestrianStates[1].obj = 2
    /\ myNumActivePedestrians = 1


\* The work left to the pedestrian loop of execute at stateIt = i: for each
\* state from the i-th on, its waypoints and the step past it.
RECURSIVE WorkLeft(_, _)
WorkLeft(states, i) ==
    IF i > Len(states) THEN 0
    ELSE Len(states[i].waypoints) + 1 + WorkLeft(states, i + 1)

\* C28: every execute call terminates.  Each iteration of the
\* pedestrian loop either moves on to the next state, erases the current
\* state or removes one waypoint from the current state's queue, so that the
\* work left decreases; a drain of the stage's remaining edges makes at least
\* one and at most RouteLen advances; and a call that has entered the loop
\* returns.
C28_ExecuteTerminates ==
    /\ [][ret'.op = "executeVisit"
            => LET movedOn == /\ stateIt' = stateIt + 1
                              /\ Len(myPedestrianStates') = Len(myPedestrianStates)
                   erased == /\ stateIt' = stateIt
                             /\ myPedestrianStates' = RemoveAt(myPedestrianStates, stateIt)
                   popped == /\ stateIt' = stateIt
                             /\ Len(myPedestrianStates') = Len(myPedestrianStates)
                             /\ myPedestrianStates'[stateIt].waypoints
                                   = Tail(myPedestrianStates[stateIt].waypoints)
               IN  /\ movedOn \/ erased \/ popped
                   /\ WorkLeft(myPedestrianStates', stateIt')
                         < WorkLeft(myPedestrianStates, stateIt)
                   /\ \A n \in CallsOf(jpsCalls', "moveToNextEdge until arrived") :
                         jpsCalls'[n][2] \in 1..RouteLen]_vars
    /\ (pc = "loop") ~> (pc = "idle")

\* C29: the engine accepts at most one agent for each pedestrian state.  An
\* insertion attempt is made only by an add that creates the state, once, and
\* by a visit of execute to a state that waits to enter, once; and an agent
\* is marked for removal only by the visit of execute that erases its state,
\* which was inserted, once.
C29_OneAgentPerState ==
    [][LET attempts == CallsOf(jpsCalls', "JPS_Simulation_AddCollisionFreeSpeedModelAgent")
           marks == CallsOf(jpsCalls', "JPS_Simulation_MarkAgentForRemoval")
       IN  /\ \A o \in DOMAIN hist' : hist'[o].accepted <= 1
           /\ attempts # {}
                 => /\ Cardinality(attempts) = 1
                    /\ \/ /\ ret'.op = "add"
                          /\ heap' = heap + 1
                          /\ ret'.value = heap'
                          /\ ret'.value \notin Tracked(myPedestrianStates)
                       \/ /\ ret'.op = "executeVisit"
                          /\ myPedestrianStates[stateIt].obj = ret'.arg
                          /\ myPedestrianStates[stateIt].waiting
                          /\ hist[ret'.arg].accepted = 0
           /\ marks # {}
                 => /\ Cardinality(marks) = 1
                    /\ ret'.op = "executeVisit"
                    /\ myPedestrianStates[stateIt].obj = ret'.arg
                    /\ ~myPedestrianStates[stateIt].waiting
                    /\ hist[ret'.arg].accepted = 1
                    /\ \A n \in marks : jpsCalls'[n][2] = myPedestrianStates[stateIt].agentId
                    /\ ret'.arg \notin Tracked(myPedestrianStates')
                    /\ myPedestrianStates[stateIt].agentId \notin DOMAIN jps'.agents]_vars

\* execute has erased the second of two pedestrians and marked its agent for
\* removal, while the first, which is tracked still, has its one agent.
C29_Witness ==
    /\ ret.op = "executeVisit"
    /\ ret.arg = 2
    /\ HasCall(jpsCalls, "JPS_Simulation_MarkAgentForRemoval")
    /\ Len(myPedestrianStates) = 1
    /\ myPedestrianStates[1].obj = 1
    /\ hist[1].accepted = 1
    /\ DOMAIN jps.agents = {myPedestrianStates[1].agentId}


\* C30: every connector pushed for a pair of edges is built from the anchor
\* of each of the two lanes by the anchor rule, the end of the lane's shape if
\* the edge is a predecessor of the walking area and its start otherwise;
\* none is built from a default-constructed anchor.
C30_ConnectorAnchorsComputed ==
    ret.op = "connectPair"
        => \A i \in Connectors(ret.value) :
              LET edge == ret.arg.edge
                  nextEdge == ret.arg.nextEdge
              IN  /\ ret.value[i].anchor
                        = IF edge.incoming THEN edge.lane.back ELSE edge.lane.front
                  /\ ret.value[i].otherAnchor
                        = IF nextEdge.incoming THEN nextEdge.lane.back ELSE nextEdge.lane.front
                  /\ ret.value[i].anchor # <<0, 0>>
                  /\ ret.value[i].otherAnchor # <<0, 0>>

=============================================================================
